---- MODULE Spec2Model ----
(***************************************************************************)
(* Event store with attached similarity index (SnapChronicles).            *)
(*                                                                         *)
(*   src/src/database/db_handler.py      events table, store_event,        *)
(*                                       vectorize_existing_events         *)
(*   src/src/database/vector_handler.py  vectors table, FAISS index,       *)
(*                                       vectors.faiss snapshot            *)
(*                                                                         *)
(* Texts are sequences of one-character strings.  Vectors are naturals     *)
(* (the embedding of a text is a number computed from its characters).     *)
(* SQL NULL / Python None of a text column is the sentinel None; a missing *)
(* integer result (Python None where an id is expected) is NoId = 0.       *)
(***************************************************************************)
EXTENDS Integers, Sequences, FiniteSets, TLC

(***************************************************************************)
(* Bounds of the model.                                                    *)
(***************************************************************************)
MaxEvents == 2
MaxVectors == 3
MaxAdds == 2
MaxTopK == 2
MaxShots == 2
MaxSegments == 1
MaxCtrlC == 2

(***************************************************************************)
(* Input domains.                                                          *)
(***************************************************************************)
None == <<"None">>
NoId == 0

Timestamps == {1, 2}
SourceTypes == {"ocr", "transcription"}
Contents == {None, <<>>, <<" ">>, <<"a">>, <<" ", "a">>, <<"b", " ">>}
MediaPaths == {None, <<"p">>}
\* The contents used where only emptiness and blankness matter.
SweepContents == {None, <<>>, <<" ">>, <<" ", "a">>}
Threads == {"t1", "t2"}
\* Contents with distinct embeddings, and the queries put to them.
SearchContents == {<<"b", " ">>, <<"a", "b">>}
SearchQueries == {<<"b">>, <<"b", "b">>}
\* What the query expander yields: nothing, or one more query, which may be
\* blank.
Expansions == {<<>>, <<<<" ">>>>} \cup {<<q>> : q \in SearchQueries}
\* A call of the expander: it returns phrases, or it fails (the module is
\* missing, it raises, it times out); phrases is then what it would have
\* returned, which the caller never sees.
ExpanderOutcomes ==
    {[failed |-> FALSE, phrases |-> e] : e \in Expansions}
        \cup {[failed |-> TRUE, phrases |-> <<<<"b">>>>]}
NoExpansion == [failed |-> FALSE, phrases |-> <<>>]

\* The single step that fails in one call ("none": no step fails).
Faults == {"none", "import_error", "construct_raise", "embed_raise",
           "insert_raise", "add_raise", "save_raise", "mark_raise",
           "crash_after_commit"}
\* The faults that can hit the vectorization of one event inside a sweep.
EventFaults == {"none", "embed_raise", "insert_raise", "add_raise",
                "save_raise", "mark_raise"}

(***************************************************************************)
(* Text helpers.                                                           *)
(***************************************************************************)
IsSpace(ch) == ch = " "

RECURSIVE LStrip(_)
LStrip(s) == IF s # <<>> /\ IsSpace(Head(s)) THEN LStrip(Tail(s)) ELSE s

RECURSIVE RStrip(_)
RStrip(s) ==
    IF s # <<>> /\ IsSpace(s[Len(s)]) THEN RStrip(SubSeq(s, 1, Len(s) - 1)) ELSE s

\* str.strip()
Strip(s) == RStrip(LStrip(s))

\* Python truthiness test `not text or not text.strip()`
IsBlank(text) == text = None \/ text = <<>> \/ Strip(text) = <<>>

CharCode(ch) == IF ch = "a" THEN 1 ELSE IF ch = "b" THEN 2 ELSE 0

\* model.encode([text])[0]: deterministic in the text.
RECURSIVE Encode(_)
Encode(text) == IF text = <<>> THEN 0 ELSE CharCode(Head(text)) + 3 * Encode(Tail(text))

\* sqlite3 adaptation of a Python bool bound to the BOOLEAN (numeric) column.
SqlBool(b) == IF b THEN 1 ELSE 0

(***************************************************************************)
(* Tables.  AUTOINCREMENT ids: one more than the largest id ever used; no  *)
(* row is ever deleted, so that is the id of the last row plus one.        *)
(***************************************************************************)
\* Variant: the id is max(rowid) of the rows (no + 1).
NextRowId_Reuse(tbl) == IF tbl = <<>> THEN 1 ELSE tbl[Len(tbl)].id

NextRowId(tbl) == IF tbl = <<>> THEN 1 ELSE tbl[Len(tbl)].id + 1

\* Variant: a NULL content is stored as the empty string.
InsertEvent_EmptyForNull(evs, ts, st, c, vz, mp) ==
    Append(evs, [id |-> NextRowId(evs), timestamp |-> ts, source_type |-> st,
                 content |-> IF c = None THEN <<>> ELSE c,
                 vectorized |-> SqlBool(vz), media_path |-> mp])

\* INSERT INTO events (timestamp, source_type, content, vectorized, media_path)
InsertEvent(evs, ts, st, c, vz, mp) ==
    Append(evs, [id |-> NextRowId(evs), timestamp |-> ts, source_type |-> st,
                 content |-> c, vectorized |-> SqlBool(vz), media_path |-> mp])

\* Variant: INSERT OR REPLACE keyed on the event.
InsertVector_ReplaceByEvent(vecs, eid, v) ==
    Append(SelectSeq(vecs, LAMBDA r : r.event_id # eid),
           [id |-> NextRowId(vecs), event_id |-> eid, vector |-> v])

\* INSERT INTO vectors (event_id, vector, vector_dimension)
InsertVector(vecs, eid, v) ==
    Append(vecs, [id |-> NextRowId(vecs), event_id |-> eid, vector |-> v])

\* Variant: SET vectorized = NOT vectorized.
MarkEventVectorized_Toggle(evs, eid) ==
    [i \in 1..Len(evs) |->
        IF evs[i].id = eid THEN [evs[i] EXCEPT !.vectorized = 1 - @] ELSE evs[i]]

\* Variant: the UPDATE matches no row.
MarkEventVectorized_NoUpdate(evs, eid) == evs

\* UPDATE events SET vectorized = TRUE WHERE id = ?
MarkEventVectorized(evs, eid) ==
    [i \in 1..Len(evs) |-> IF evs[i].id = eid THEN [evs[i] EXCEPT !.vectorized = 1] ELSE evs[i]]

\* get_event_by_id: the dict of the row, or the empty sequence for None.
GetEventById(evs, eid) ==
    LET hits == {i \in 1..Len(evs) : evs[i].id = eid}
    IN IF hits = {} THEN <<>> ELSE <<evs[CHOOSE i \in hits : TRUE]>>

\* Number of vectors rows of one event.
VectorRowsOf(vecs, eid) == Cardinality({i \in 1..Len(vecs) : vecs[i].event_id = eid})

(***************************************************************************)
(* Similarity index and its snapshot file.                                 *)
(***************************************************************************)
\* get_sentence_embedding_dimension() of MODEL_NAME, and the dimension of
\* an index that was written with another embedding model.
LiveDimension == 384
OtherDimension == 768

NoFile == [exists |-> FALSE, vecs |-> <<>>, dim |-> LiveDimension]

\* index.add(np.array([vector]))
IndexAdd(idx, v) == Append(idx, v)

\* faiss.write_index(self.index, VECTOR_INDEX_PATH)
SaveIndex(idx, d) == [exists |-> TRUE, vecs |-> idx, dim |-> d]

\* Variant: the rows are read newest first.
RebuildIndexFromDb_Descending(vecs) ==
    [i \in 1..Len(vecs) |-> vecs[Len(vecs) + 1 - i].vector]

\* _rebuild_index_from_db: SELECT event_id, vector FROM vectors ORDER BY id
RebuildIndexFromDb(vecs) == [i \in 1..Len(vecs) |-> vecs[i].vector]

\* _load_or_create_index
LoadOrCreateIndex(snap, vecs) ==
    IF snap.exists THEN snap.vecs ELSE RebuildIndexFromDb(vecs)

(***************************************************************************)
(* The operations as functions of the world w = [events, vectors,          *)
(* snapshot, vh, index]: events/vectors are the tables of snap.db,         *)
(* snapshot is the file vectors.faiss, vh is db_handler._vector_handler    *)
(* ("None", "False" or "Handler") and index is the handler's in-memory     *)
(* FAISS index.  Each returns [w, ret, status]: the world it leaves, its   *)
(* return value, and "ok" (returned), "raised" (an exception left the      *)
(* call) or "crashed" (the process died inside the call).                  *)
(***************************************************************************)
Out(w, ret, status) == [w |-> w, ret |-> ret, status |-> status]

\* The dimension of the handler's index: that of the snapshot it was read
\* from or is saved to, else that of IndexFlatL2(self.dimension).
IndexDimension(w) == IF w.snapshot.exists THEN w.snapshot.dim ELSE LiveDimension

\* VectorHandler.store_vector; index.add refuses a vector whose dimension is
\* not the index's.
StoreVector(w, eid, v, fault) ==
    LET vid == NextRowId(w.vectors)
        w1 == [w EXCEPT !.vectors = InsertVector(@, eid, v)]
        w2 == [w1 EXCEPT !.index = IndexAdd(@, v)]
        w3 == [w2 EXCEPT !.snapshot = SaveIndex(w2.index, IndexDimension(w))]
    IN  IF fault = "insert_raise" THEN Out(w, NoId, "raised")
        ELSE IF fault = "crash_after_commit" THEN Out(w1, NoId, "crashed")
        ELSE IF fault = "add_raise" THEN Out(w1, NoId, "raised")
        ELSE IF IndexDimension(w) # LiveDimension THEN Out(w1, NoId, "raised")
        ELSE IF fault = "save_raise" THEN Out(w2, NoId, "raised")
        ELSE Out(w3, vid, "ok")

\* VectorHandler.vectorize_text: <<vector>>, or <<>> for None.
VectorizeText(text) == IF IsBlank(text) THEN <<>> ELSE <<Encode(Strip(text))>>

\* Variant: the event is marked although storing its vector failed.
VectorizeAndStore_MarksOnFailure(w, eid, text, fault) ==
    IF IsBlank(text) THEN Out(w, NoId, "ok")
    ELSE IF fault = "embed_raise" THEN Out(w, NoId, "raised")
    ELSE LET vec == VectorizeText(text)
         IN  IF vec = <<>> THEN Out(w, NoId, "ok")
             ELSE LET r == StoreVector(w, eid, vec[1], fault)
                  IN  IF r.status = "crashed" THEN r
                      ELSE IF r.status # "ok"
                      THEN Out([r.w EXCEPT !.events = MarkEventVectorized(@, eid)],
                               NoId, "raised")
                      ELSE IF fault = "mark_raise" THEN Out(r.w, NoId, "raised")
                      ELSE Out([r.w EXCEPT !.events = MarkEventVectorized(@, eid)],
                               r.ret, "ok")

\* VectorHandler.vectorize_and_store
VectorizeAndStore(w, eid, text, fault) ==
    IF IsBlank(text) THEN Out(w, NoId, "ok")
    ELSE IF fault = "embed_raise" THEN Out(w, NoId, "raised")
    ELSE LET vec == VectorizeText(text)
         IN  IF vec = <<>> THEN Out(w, NoId, "ok")
             ELSE LET r == StoreVector(w, eid, vec[1], fault)
                  IN  IF r.status # "ok" THEN r
                      ELSE IF fault = "mark_raise" THEN Out(r.w, NoId, "raised")
                      ELSE Out([r.w EXCEPT !.events = MarkEventVectorized(@, eid)],
                               r.ret, "ok")

\* db_handler.get_vector_handler (with vector_handler.get_vector_handler
\* and VectorHandler.__init__ behind it): ret 1 is the handler, 0 is None.
GetVectorHandler(w, fault) ==
    IF w.vh = "None"
    THEN IF fault = "import_error" THEN Out([w EXCEPT !.vh = "False"], 0, "ok")
         ELSE IF fault = "construct_raise" THEN Out(w, 0, "raised")
         ELSE Out([w EXCEPT !.vh = "Handler",
                            !.index = LoadOrCreateIndex(w.snapshot, w.vectors)], 1, "ok")
    ELSE Out(w, IF w.vh = "Handler" THEN 1 ELSE 0, "ok")

\* Variant: the failure of the events store shows after the row is in.
StoreEvent_RaisesAfterInsert(w, ts, st, c, vz, mp, auto, fault) ==
    LET eid == NextRowId(w.events)
        w1 == [w EXCEPT !.events = InsertEvent(@, ts, st, c, vz, mp)]
    IN  IF fault = "events_insert_raise" THEN Out(w1, NoId, "raised")
        ELSE IF auto /\ ~IsBlank(c) /\ ~vz
        THEN LET h == GetVectorHandler(w1, fault)
             IN  IF h.status = "raised" THEN Out(h.w, NoId, "raised")
                 ELSE IF h.ret = 0 THEN Out(h.w, eid, "ok")
                 ELSE LET r == VectorizeAndStore(h.w, eid, c, fault)
                      IN  IF r.status = "crashed" THEN r ELSE Out(r.w, eid, "ok")
        ELSE Out(w1, eid, "ok")

\* db_handler.store_event.  With the fault "events_insert_raise" the
\* connect, the INSERT or the commit raises: nothing is committed and the
\* exception leaves the call.
StoreEvent(w, ts, st, c, vz, mp, auto, fault) ==
    LET eid == NextRowId(w.events)
        w1 == [w EXCEPT !.events = InsertEvent(@, ts, st, c, vz, mp)]
    IN  IF fault = "events_insert_raise" THEN Out(w, NoId, "raised")
        ELSE IF auto /\ ~IsBlank(c) /\ ~vz
        THEN LET h == GetVectorHandler(w1, fault)
             IN  IF h.status = "raised" THEN Out(h.w, NoId, "raised")
                 ELSE IF h.ret = 0 THEN Out(h.w, eid, "ok")
                 ELSE LET r == VectorizeAndStore(h.w, eid, c, fault)
                      IN  IF r.status = "crashed" THEN r ELSE Out(r.w, eid, "ok")
        ELSE Out(w1, eid, "ok")

\* Variant: the WHERE clause lacks `content != ""`.
SelectEvents_KeepsEmpty(evs, force) ==
    LET keep(e) == e.content # None /\ (force \/ e.vectorized = 0)
        F[i \in 0..Len(evs)] ==
            IF i = 0 THEN <<>>
            ELSE IF keep(evs[i]) THEN Append(F[i - 1], evs[i]) ELSE F[i - 1]
    IN  F[Len(evs)]

\* Variant: the WHERE clause lacks `vectorized = FALSE`.
SelectEvents_IgnoreFlag(evs, force) ==
    LET keep(e) == e.content # None /\ e.content # <<>>
        F[i \in 0..Len(evs)] ==
            IF i = 0 THEN <<>>
            ELSE IF keep(evs[i]) THEN Append(F[i - 1], evs[i]) ELSE F[i - 1]
    IN  F[Len(evs)]

\* The SELECT of vectorize_existing_events: the selected rows, in id order.
SelectEvents(evs, force) ==
    LET keep(e) == e.content # None /\ e.content # <<>> /\ (force \/ e.vectorized = 0)
        F[i \in 0..Len(evs)] ==
            IF i = 0 THEN <<>>
            ELSE IF keep(evs[i]) THEN Append(F[i - 1], evs[i]) ELSE F[i - 1]
    IN  F[Len(evs)]

\* The for loop of vectorize_existing_events over the fetched rows.
RECURSIVE SweepLoop(_, _, _, _, _)
SweepLoop(w, rows, faults, count, attempted) ==
    IF rows = <<>> THEN [w |-> w, count |-> count, attempted |-> attempted]
    ELSE LET e == Head(rows)
             r == VectorizeAndStore(w, e.id, e.content, faults[e.id])
             ok == r.status = "ok" /\ r.ret # NoId
         IN  SweepLoop(r.w, Tail(rows), faults,
                       IF ok THEN count + 1 ELSE count, Append(attempted, e.id))

\* db_handler.vectorize_existing_events; ret is the reported count.
VectorizeExistingEvents(w, force, hfault, faults) ==
    LET h == GetVectorHandler(w, hfault)
    IN  IF h.status = "raised"
        THEN [w |-> h.w, ret |-> 0, status |-> "raised", attempted |-> <<>>]
        ELSE IF h.ret = 0 THEN [w |-> h.w, ret |-> 0, status |-> "ok", attempted |-> <<>>]
        ELSE LET l == SweepLoop(h.w, SelectEvents(h.w.events, force), faults, 0, <<>>)
             IN  [w |-> l.w, ret |-> l.count, status |-> "ok", attempted |-> l.attempted]

\* Variant: the last COUNT takes the vectorized events.
HandlerStats_CountsVectorized(w) ==
    [total_vectors |-> Len(w.vectors),
     non_vectorized_events |-> Cardinality({i \in 1..Len(w.events) : w.events[i].vectorized = 1}),
     faiss_index_size |-> Len(w.index)]

\* VectorHandler.get_vector_stats: the dict it returns.
HandlerStats(w) ==
    [total_vectors |-> Len(w.vectors),
     non_vectorized_events |-> Cardinality({i \in 1..Len(w.events) : w.events[i].vectorized = 0}),
     faiss_index_size |-> Len(w.index)]

\* db_handler.get_vector_stats: <<dict>>, or <<>> for None.
GetVectorStats(w, hfault) ==
    LET h == GetVectorHandler(w, hfault)
    IN  IF h.status = "raised" THEN Out(h.w, <<>>, "raised")
        ELSE IF h.ret = 0 THEN Out(h.w, <<>>, "ok")
        ELSE Out(h.w, <<HandlerStats(h.w)>>, "ok")

(***************************************************************************)
(* Listing.                                                                *)
(***************************************************************************)
\* Variant: ORDER BY timestamp (ascending).
ComesBefore_Ascending(a, b) ==
    a.timestamp < b.timestamp \/ (a.timestamp = b.timestamp /\ a.id < b.id)

\* ORDER BY timestamp DESC, read backwards off idx_timestamp: rows with the
\* same timestamp come out by descending id (SQL promises no order there).
ComesBefore(a, b) ==
    a.timestamp > b.timestamp \/ (a.timestamp = b.timestamp /\ a.id > b.id)

\* The sorter: row e is put in front of the first row it comes before.
RECURSIVE OrderedInsert(_, _)
OrderedInsert(rows, e) ==
    IF rows = <<>> THEN <<e>>
    ELSE IF ComesBefore(e, Head(rows)) THEN <<e>> \o rows
    ELSE <<Head(rows)>> \o OrderedInsert(Tail(rows), e)

\* db_handler.get_all_events: SELECT * FROM events ORDER BY timestamp DESC
GetAllEvents(evs) ==
    LET F[i \in 0..Len(evs)] == IF i = 0 THEN <<>> ELSE OrderedInsert(F[i - 1], evs[i])
    IN  F[Len(evs)]

(***************************************************************************)
(* Search.                                                                 *)
(***************************************************************************)
Min2(a, b) == IF a <= b THEN a ELSE b

\* IndexFlatL2 metric: squared distance.
Distance(q, v) == (q - v) * (q - v)

\* index.search(query, k): the k nearest positions with their distances,
\* nearest first (equal distances by position); positions count from 1.
RECURSIVE Nearest(_, _, _, _)
Nearest(idx, q, k, taken) ==
    LET left == (1..Len(idx)) \ taken
        closer(p, r) == \/ Distance(q, idx[p]) < Distance(q, idx[r])
                        \/ (Distance(q, idx[p]) = Distance(q, idx[r]) /\ p <= r)
        best == CHOOSE p \in left : \A r \in left : closer(p, r)
    IN  IF k = 0 \/ left = {} THEN <<>>
        ELSE <<[pos |-> best, distance |-> Distance(q, idx[best])]>>
                 \o Nearest(idx, q, k - 1, taken \cup {best})

IndexSearch(idx, q, k) == Nearest(idx, q, k, {})

\* SELECT ... FROM vectors v JOIN events e ON v.event_id = e.id ORDER BY v.id
VectorEvents(vecs, evs) ==
    LET F[i \in 0..Len(vecs)] ==
            IF i = 0 THEN <<>>
            ELSE LET e == GetEventById(evs, vecs[i].event_id)
                 IN  IF e = <<>> THEN F[i - 1]
                     ELSE Append(F[i - 1], [event_id |-> vecs[i].event_id,
                                            content |-> e[1].content,
                                            vector_id |-> vecs[i].id])
    IN  F[Len(vecs)]

\* The loop of search_similar that matches index positions to joined rows.
RECURSIVE MatchHits(_, _, _)
MatchHits(hits, rows, i) ==
    IF i > Len(hits) THEN <<>>
    ELSE IF hits[i].pos <= Len(rows)
         THEN <<[event_id |-> rows[hits[i].pos].event_id,
                 content |-> rows[hits[i].pos].content,
                 vector_id |-> rows[hits[i].pos].vector_id,
                 similarity_score |-> hits[i].distance,
                 rank |-> i]>> \o MatchHits(hits, rows, i + 1)
         ELSE MatchHits(hits, rows, i + 1)

\* VectorHandler.search_similar.  fail: the embedding or the index lookup
\* raises; index.search refuses a query whose dimension is not the index's.
\* strict: the FAISS build refuses a neighbour count of 0 (its
\* search asserts k > 0); other builds answer it with no neighbours.
SearchSimilar(w, query_text, top_k, fail, strict) ==
    LET k == Min2(top_k, Len(w.index))
    IN  IF IsBlank(query_text) THEN Out(w, <<>>, "ok")
        ELSE IF fail THEN Out(w, <<>>, "raised")
        ELSE IF IndexDimension(w) # LiveDimension THEN Out(w, <<>>, "raised")
        ELSE IF k = 0 /\ strict THEN Out(w, <<>>, "raised")
        ELSE Out(w, MatchHits(IndexSearch(w.index, VectorizeText(query_text)[1], k),
                              VectorEvents(w.vectors, w.events), 1), "ok")

\* Variant: the last result seen for an event replaces the one kept.
Aggregate_KeepLast(aggregated, res) ==
    LET at == {i \in 1..Len(aggregated) : aggregated[i].event_id = res.event_id}
    IN  IF at = {} THEN Append(aggregated, res)
        ELSE [i \in 1..Len(aggregated) |-> IF i \in at THEN res ELSE aggregated[i]]

\* aggregated[eid] = res if eid is new or res is nearer.  The dict is the
\* sequence of its values in key insertion order.
Aggregate(aggregated, res) ==
    LET at == {i \in 1..Len(aggregated) : aggregated[i].event_id = res.event_id}
    IN  IF at = {} THEN Append(aggregated, res)
        ELSE [i \in 1..Len(aggregated) |->
                 IF i \in at /\ res.similarity_score < aggregated[i].similarity_score
                 THEN res ELSE aggregated[i]]

RECURSIVE AggregateAll(_, _)
AggregateAll(aggregated, results) ==
    IF results = <<>> THEN aggregated
    ELSE AggregateAll(Aggregate(aggregated, Head(results)), Tail(results))

\* The for loop over the queries; a query in bad (by position) raises.
RECURSIVE SearchLoop(_, _, _, _, _, _, _)
SearchLoop(w, queries, top_k, bad, strict, i, aggregated) ==
    IF i > Len(queries) THEN aggregated
    ELSE LET r == SearchSimilar(w, queries[i], top_k, i \in bad, strict)
         IN  SearchLoop(w, queries, top_k, bad, strict, i + 1,
                        IF r.status = "ok" THEN AggregateAll(aggregated, r.ret)
                        ELSE aggregated)

\* Variant: sorted(..., reverse=True).
ScoreInsert_Descending(rows, r) ==
    LET after == {i \in 1..Len(rows) : rows[i].similarity_score < r.similarity_score}
        n == IF after = {} THEN Len(rows)
             ELSE (CHOOSE i \in after : \A j \in after : i <= j) - 1
    IN  SubSeq(rows, 1, n) \o <<r>> \o SubSeq(rows, n + 1, Len(rows))

\* One step of the stable sort: r goes after every row that is not farther.
ScoreInsert(rows, r) ==
    LET after == {i \in 1..Len(rows) : rows[i].similarity_score > r.similarity_score}
        n == IF after = {} THEN Len(rows)
             ELSE (CHOOSE i \in after : \A j \in after : i <= j) - 1
    IN  SubSeq(rows, 1, n) \o <<r>> \o SubSeq(rows, n + 1, Len(rows))

\* sorted(aggregated.values(), key=lambda r: r['similarity_score'])
SortByScore(rows) ==
    LET F[i \in 0..Len(rows)] == IF i = 0 THEN <<>> ELSE ScoreInsert(F[i - 1], rows[i])
    IN  F[Len(rows)]

\* Variant: the whole list is returned.
Truncate_Nothing(rows, top_k) == rows

\* results[:top_k] for top_k >= 0
Truncate(rows, top_k) == SubSeq(rows, 1, Min2(top_k, Len(rows)))

\* Variant: what the expander had produced is used although it failed.
ExpandedQueries_KeepsPhrases(query_text, exp) == <<query_text>> \o exp.phrases

\* The query set: the original query, and the phrases of an expander that
\* returned (try ... except Exception around the import and the call).
ExpandedQueries(query_text, exp) ==
    IF exp.failed THEN <<query_text>> ELSE <<query_text>> \o exp.phrases

\* Variant: only the original query is searched.
SearchSimilarEvents_OriginalOnly(w, query_text, top_k, exp, hfault, bad, strict) ==
    LET h == GetVectorHandler(w, hfault)
    IN  IF h.status = "raised" THEN Out(h.w, <<>>, "raised")
        ELSE IF h.ret = 0 THEN Out(h.w, <<>>, "ok")
        ELSE Out(h.w, Truncate(SortByScore(SearchLoop(h.w, <<query_text>>, top_k, bad,
                                                      strict, 1, <<>>)),
                               top_k), "ok")

\* db_handler.search_similar_events.  exp is the outcome of expand_query.
SearchSimilarEvents(w, query_text, top_k, exp, hfault, bad, strict) ==
    LET h == GetVectorHandler(w, hfault)
        queries == ExpandedQueries(query_text, exp)
    IN  IF h.status = "raised" THEN Out(h.w, <<>>, "raised")
        ELSE IF h.ret = 0 THEN Out(h.w, <<>>, "ok")
        ELSE Out(h.w, Truncate(SortByScore(SearchLoop(h.w, queries, top_k, bad,
                                                      strict, 1, <<>>)),
                               top_k), "ok")

(***************************************************************************)
(* State.                                                                  *)
(*   events, vectors   the two tables of snap.db                           *)
(*   snapshot          the file vectors.faiss                              *)
(*   vh, index         the process: the cached handler and its index       *)
(*   last              the operation that completed last, with what it     *)
(*                     was called with, returned and printed               *)
(*   inst              the handler instances of the process: db and vm are *)
(*                     the globals _vector_handler of db_handler and of    *)
(*                     vector_handler (0 is None, -1 is False, n > 0 the   *)
(*                     n-th instance constructed), made counts the         *)
(*                     VectorHandler instances constructed                 *)
(*   pc, targ, tn      the threads inside store_vector (SpecThreads)       *)
(*   procs             the capture processes launched by run_dual_capture  *)
(*   cap               the queues and workers inside one capture process   *)
(***************************************************************************)
VARIABLES events, vectors, snapshot, vh, inst, index, last, pc, targ, tn, procs, cap

vars == <<events, vectors, snapshot, vh, inst, index, last, pc, targ, tn, procs, cap>>
threadVars == <<pc, targ, tn, procs, cap>>

World == [events |-> events, vectors |-> vectors, snapshot |-> snapshot,
          vh |-> vh, index |-> index]

NoLast == [op |-> "init", ts |-> 0, st |-> "", c |-> None, vz |-> FALSE, mp |-> None,
           auto |-> FALSE, force |-> FALSE, fault |-> "none", faultfree |-> TRUE,
           ret |-> NoId, status |-> "ok", pre_nvec |-> 0, pre_ntotal |-> 0,
           selected |-> <<>>, attempted |-> <<>>, fresh |-> FALSE, stats |-> <<>>,
           query |-> <<>>, top_k |-> 0, queries |-> <<>>, bad |-> {}, results |-> <<>>,
           xfailed |-> FALSE, strict |-> FALSE]

NoArg == [eid |-> 0, v |-> 0]

NoInst == [db |-> 0, vm |-> 0, made |-> 0]

\* No capture process is launched, no capture pipeline runs.
NoProcs == <<>>
NoCap == <<>>

\* The instances behind db_handler._vector_handler when one thread made
\* every call: the import failed, or the one handler was constructed.
InstOf(h) ==
    IF h = "Handler" THEN [db |-> 1, vm |-> 1, made |-> 1]
    ELSE IF h = "False" THEN [db |-> -1, vm |-> 0, made |-> 0]
    ELSE NoInst

\* The world an operation leaves; a process that died keeps only the disk.
Leave(r) ==
    /\ events' = r.w.events
    /\ vectors' = r.w.vectors
    /\ snapshot' = r.w.snapshot
    /\ vh' = IF r.status = "crashed" THEN "None" ELSE r.w.vh
    /\ inst' = InstOf(IF r.status = "crashed" THEN "None" ELSE r.w.vh)
    /\ index' = IF r.status = "crashed" THEN <<>> ELSE r.w.index

Init ==
    /\ events = <<>>
    /\ vectors = <<>>
    /\ snapshot = NoFile
    /\ vh = "None"
    /\ inst = NoInst
    /\ index = <<>>
    /\ last = NoLast
    /\ pc = [t \in Threads |-> "idle"]
    /\ targ = [t \in Threads |-> NoArg]
    /\ tn = [t \in Threads |-> 0]
    /\ procs = NoProcs
    /\ cap = NoCap

\* store_event called with the given arguments; fault is the step that fails
\* in this call (a fault is taken only where the call reaches that step).
CallStoreEvent(ts, st, c, vz, mp, auto, fault) ==
    LET r == StoreEvent(World, ts, st, c, vz, mp, auto, fault)
        h == GetVectorHandler(World, fault)
    IN  /\ Len(events) < MaxEvents
        /\ Len(vectors) < MaxVectors
        /\ fault \notin {"none", "events_insert_raise"} => (auto /\ ~IsBlank(c) /\ ~vz)
        /\ fault = "none" \/ r # StoreEvent(World, ts, st, c, vz, mp, auto, "none")
        /\ Leave(r)
        /\ last' = [NoLast EXCEPT !.op = "store_event", !.ts = ts, !.st = st,
                       !.c = c, !.vz = vz, !.mp = mp, !.auto = auto,
                       !.fault = fault, !.faultfree = (fault = "none"),
                       !.ret = r.ret, !.status = r.status,
                       !.pre_nvec = Len(vectors), !.pre_ntotal = Len(h.w.index),
                       !.fresh = (vh = "None" /\ r.status # "crashed" /\ r.w.vh = "Handler")]
        /\ UNCHANGED threadVars

\* A capture worker stores an event.
DoStoreEvent ==
    \E c \in SweepContents, vz \in BOOLEAN, auto \in BOOLEAN, fault \in Faults :
        CallStoreEvent(1, "ocr", c, vz, None, auto, fault)

\* vectorize_existing_events called with the given argument; the
\* vectorization of the events in bad fails at the step fault.
CallVectorizeExistingEvents(force, hfault, fault, bad) ==
        LET sel == SelectEvents(events, force)
            selIds == {sel[i].id : i \in 1..Len(sel)}
            faults == [e \in 1..Len(events) |-> IF e \in bad THEN fault ELSE "none"]
            r == VectorizeExistingEvents(World, force, hfault, faults)
            h == GetVectorHandler(World, hfault)
        IN  /\ (fault = "none") = (bad = {})
            /\ hfault # "none" => vh = "None"
            /\ Len(vectors) + Len(sel) <= MaxVectors
            /\ hfault = "none" \/ h # GetVectorHandler(World, "none")
            /\ bad \subseteq selIds
            /\ h.ret = 0 => bad = {}
            /\ Leave(r)
            /\ last' = [NoLast EXCEPT !.op = "sweep", !.force = force,
                           !.fault = IF hfault # "none" THEN hfault ELSE fault,
                           !.faultfree = (hfault = "none" /\ bad = {}),
                           !.ret = r.ret, !.status = r.status,
                           !.pre_nvec = Len(vectors),
                           !.pre_ntotal = Len(h.w.index),
                           !.fresh = (vh = "None" /\ r.w.vh = "Handler"),
                           !.selected = [i \in 1..Len(sel) |-> sel[i].id],
                           !.attempted = r.attempted]
            /\ UNCHANGED threadVars

\* A caller runs vectorize_existing_events.
DoVectorizeExistingEvents ==
    \E force \in BOOLEAN, hfault \in {"none", "import_error", "construct_raise"},
       fault \in EventFaults, bad \in SUBSET (1..Len(events)) :
        CallVectorizeExistingEvents(force, hfault, fault, bad)

\* A caller runs get_vector_stats.
DoGetVectorStats ==
    \E hfault \in {"none", "import_error", "construct_raise"} :
        LET r == GetVectorStats(World, hfault)
        IN  /\ hfault # "none" => vh = "None"
            /\ hfault = "none" \/ r # GetVectorStats(World, "none")
            /\ Leave(r)
            /\ last' = [NoLast EXCEPT !.op = "stats", !.fault = hfault,
                           !.faultfree = (hfault = "none"), !.status = r.status,
                           !.fresh = (vh = "None" /\ r.w.vh = "Handler"),
                           !.stats = r.ret]
            /\ UNCHANGED threadVars

\* search_similar_events called with the given arguments; exp is the outcome
\* of the query expander, bad the queries (by position) whose search raises,
\* strict the FAISS build's answer to a neighbour count of 0.
CallSearchSimilarEvents(query_text, top_k, exp, hfault, bad, strict) ==
    LET r == SearchSimilarEvents(World, query_text, top_k, exp, hfault, bad, strict)
        h == GetVectorHandler(World, hfault)
        queries == ExpandedQueries(query_text, exp)
    IN  /\ hfault # "none" => vh = "None"
        /\ strict => (h.ret = 1 /\ Len(h.w.index) = 0)
        /\ hfault = "none" \/ h # GetVectorHandler(World, "none")
        /\ bad \subseteq {i \in 1..Len(queries) : ~IsBlank(queries[i])}
        /\ h.ret = 0 => bad = {}
        /\ Leave(r)
        /\ last' = [NoLast EXCEPT !.op = "search", !.fault = hfault,
                       !.faultfree = (hfault = "none" /\ bad = {}),
                       !.status = r.status,
                       !.fresh = (vh = "None" /\ r.w.vh = "Handler"),
                       !.query = query_text, !.top_k = top_k, !.queries = queries,
                       !.bad = bad, !.results = r.ret, !.xfailed = exp.failed,
                       !.strict = strict]
        /\ UNCHANGED threadVars

\* The process exits and a new one starts: the disk stays, the memory is lost.
Restart ==
    /\ vh # "None"
    /\ vh' = "None"
    /\ inst' = NoInst
    /\ index' = <<>>
    /\ last' = [NoLast EXCEPT !.op = "restart"]
    /\ UNCHANGED <<events, vectors, snapshot, threadVars>>

Next == DoStoreEvent \/ DoVectorizeExistingEvents \/ DoGetVectorStats \/ Restart

Spec == Init /\ [][Next]_vars

\* Every operation of the subsystem, on events with no content or with
\* content to vectorize.
OpsContents == {None, <<" ", "a">>}

DoStoreEventOps ==
    \E c \in OpsContents, vz \in BOOLEAN, auto \in BOOLEAN, fault \in Faults :
        CallStoreEvent(1, "ocr", c, vz, None, auto, fault)

\* A caller searches with one query and no expansion.
DoSearchSimilarEvents ==
    \E hfault \in {"none", "import_error", "construct_raise"}, bad \in SUBSET {1} :
        CallSearchSimilarEvents(<<"a">>, 1, NoExpansion, hfault, bad, FALSE)

NextOps ==
    \/ DoStoreEventOps
    \/ DoVectorizeExistingEvents
    \/ DoGetVectorStats
    \/ DoSearchSimilarEvents
    \/ Restart

SpecOps == Init /\ [][NextOps]_vars

\* Insert-only use of the event store: store_event with auto_vectorize=False
\* over the full range of field values.
DoInsertEvent ==
    \E ts \in Timestamps, st \in SourceTypes, c \in Contents, vz \in BOOLEAN,
       mp \in MediaPaths :
        CallStoreEvent(ts, st, c, vz, mp, FALSE, "none")

\* A caller lists the store with get_all_events.
DoGetAllEvents ==
    /\ last' = [NoLast EXCEPT !.op = "list", !.results = GetAllEvents(events)]
    /\ UNCHANGED <<events, vectors, snapshot, vh, inst, index, threadVars>>

NextFields == DoInsertEvent \/ DoGetAllEvents

SpecFields == Init /\ [][NextFields]_vars

(***************************************************************************)
(* Search over a store of events with distinct embeddings: events are      *)
(* stored with automatic vectorization (the index add may fail), swept     *)
(* with force, and searched with an original query and its expansion.      *)
(***************************************************************************)
DoStoreSearchable ==
    \E c \in SearchContents, fault \in {"none", "add_raise"} :
        CallStoreEvent(1, "ocr", c, FALSE, None, TRUE, fault)

DoForcedSweep == CallVectorizeExistingEvents(TRUE, "none", "none", {})

DoSearchFused ==
    \E q \in SearchQueries, top_k \in 1..MaxTopK, exp \in ExpanderOutcomes,
       bad \in {{}, {1}} :
        CallSearchSimilarEvents(q, top_k, exp, "none", bad, FALSE)

NextSearch == DoStoreSearchable \/ DoForcedSweep \/ DoSearchFused \/ Restart

SpecSearch == Init /\ [][NextSearch]_vars

(***************************************************************************)
(* Handler startup: the handler is built from what the last process left   *)
(* on disk, with vectors.faiss present, lost, or written with another      *)
(* embedding model, and is then asked to search.                           *)
(***************************************************************************)
StartupContents == {<<"a">>, <<"a", "b">>}

DoStoreStartup ==
    \E c \in StartupContents, fault \in {"none", "save_raise"} :
        CallStoreEvent(1, "ocr", c, FALSE, None, TRUE, fault)

\* vectors.faiss is deleted while no process runs.
LoseSnapshot ==
    /\ vh = "None"
    /\ snapshot.exists
    /\ snapshot' = NoFile
    /\ last' = [NoLast EXCEPT !.op = "lose_snapshot"]
    /\ UNCHANGED <<events, vectors, vh, inst, index, threadVars>>

\* vectors.faiss is replaced, while no process runs, by an index that was
\* built with an embedding model of another dimension.
ReplaceSnapshot ==
    /\ vh = "None"
    /\ snapshot.exists
    /\ snapshot.dim = LiveDimension
    /\ snapshot' = [snapshot EXCEPT !.dim = OtherDimension]
    /\ last' = [NoLast EXCEPT !.op = "replace_snapshot"]
    /\ UNCHANGED <<events, vectors, vh, inst, index, threadVars>>

\* VectorHandler.search_similar called on the handler of the process.
DoSearchSimilar ==
    \E top_k \in 1..MaxTopK, strict \in BOOLEAN :
        LET r == SearchSimilar(World, <<"a">>, top_k, FALSE, strict)
        IN  /\ vh = "Handler"
            /\ strict => Len(index) = 0
            /\ Leave(r)
            /\ last' = [NoLast EXCEPT !.op = "search_similar", !.status = r.status,
                           !.query = <<"a">>, !.top_k = top_k,
                           !.queries = <<<<"a">>>>, !.results = r.ret,
                           !.strict = strict]
            /\ UNCHANGED threadVars

DoSearchStartup ==
    \E top_k \in 1..MaxTopK, strict \in BOOLEAN :
        CallSearchSimilarEvents(<<"a">>, top_k, NoExpansion, "none", {}, strict)

NextStartup ==
    \/ DoStoreStartup
    \/ LoseSnapshot
    \/ ReplaceSnapshot
    \/ DoSearchSimilar
    \/ DoSearchStartup
    \/ Restart

SpecStartup == Init /\ [][NextStartup]_vars

(***************************************************************************)
(* Stores and sweeps on events whose content is whitespace-only or has     *)
(* text, with the events store failing in some stores and the              *)
(* vectorization failing in some attempts.                                 *)
(***************************************************************************)
SweptContents == {<<" ">>, <<" ", "a">>}

DoStoreSwept ==
    \E c \in SweptContents, auto \in BOOLEAN,
       fault \in {"none", "events_insert_raise", "add_raise"} :
        CallStoreEvent(1, "ocr", c, FALSE, None, auto, fault)

DoSweep ==
    \E force \in BOOLEAN, fault \in {"none", "embed_raise", "insert_raise", "mark_raise"},
       bad \in SUBSET (1..Len(events)) :
        CallVectorizeExistingEvents(force, "none", fault, bad)

NextSweep == DoStoreSwept \/ DoSweep \/ Restart

SpecSweep == Init /\ [][NextSweep]_vars

(***************************************************************************)
(* The read operations on a store filled by store_event, in processes      *)
(* that have a handler, have none yet, or cannot build one.                *)
(***************************************************************************)
DoStoreRead ==
    \E c \in OpsContents, vz \in BOOLEAN, fault \in {"none", "add_raise"} :
        CallStoreEvent(1, "ocr", c, vz, None, TRUE, fault)

\* A caller reads one event with get_event_by_id; the id may be missing.
DoGetEventById ==
    \E eid \in 1..MaxEvents :
        /\ last' = [NoLast EXCEPT !.op = "get", !.ret = eid,
                                  !.results = GetEventById(events, eid)]
        /\ UNCHANGED <<events, vectors, snapshot, vh, inst, index, threadVars>>

NextReads ==
    \/ DoStoreRead
    \/ DoGetEventById
    \/ DoGetAllEvents
    \/ DoSearchSimilarEvents
    \/ DoGetVectorStats
    \/ Restart

SpecReads == Init /\ [][NextReads]_vars

(***************************************************************************)
(* Direct use of VectorHandler.vectorize_and_store with event ids of the   *)
(* caller's choice (the vectors table's foreign key is not enforced: no    *)
(* connection sets PRAGMA foreign_keys), followed by searches.             *)
(***************************************************************************)
JoinTexts == {<<"a">>, <<"a", "b">>}

DoStoreJoin ==
    \E c \in JoinTexts : CallStoreEvent(1, "ocr", c, FALSE, None, TRUE, "none")

\* handler.vectorize_and_store(event_id, text); the event may not exist.
DoVectorizeAndStore ==
    \E eid \in 1..(MaxEvents + 1), text \in JoinTexts :
        LET r == VectorizeAndStore(World, eid, text, "none")
        IN  /\ vh = "Handler"
            /\ Len(vectors) < MaxVectors
            /\ Leave(r)
            /\ last' = [NoLast EXCEPT !.op = "vectorize_and_store", !.c = text,
                                      !.ret = r.ret, !.status = r.status]
            /\ UNCHANGED threadVars

NextJoin == DoStoreJoin \/ DoVectorizeAndStore \/ DoSearchSimilar

SpecJoin == Init /\ [][NextJoin]_vars

(***************************************************************************)
(* Direct use of VectorHandler._mark_event_vectorized on a store filled    *)
(* by store_event.                                                         *)
(***************************************************************************)
\* store_event without faults.
DoStoreEventNoFault ==
    \E c \in SweepContents, vz \in BOOLEAN, auto \in BOOLEAN :
        CallStoreEvent(1, "ocr", c, vz, None, auto, "none")

\* handler._mark_event_vectorized(e), for ids in the table and one that is not.
DoMarkEventVectorized ==
    \E e \in 1..(Len(events) + 1) :
        /\ vh = "Handler"
        /\ events' = MarkEventVectorized(events, e)
        /\ last' = [NoLast EXCEPT !.op = "mark", !.ret = e]
        /\ UNCHANGED <<vectors, snapshot, vh, inst, index, threadVars>>

NextMark == DoStoreEventNoFault \/ DoMarkEventVectorized

SpecMark == Init /\ [][NextMark]_vars

(***************************************************************************)
(* Threads calling store_event, one statement at a time; each call has its *)
(* own connection and cursor.  SQLite admits one write transaction at a    *)
(* time: the INSERT of a second connection waits for the commit of the     *)
(* first and raises "database is locked" when the wait times out.          *)
(***************************************************************************)
\* Variant: writers are not serialized.
WriteLockFree_Always(t) == TRUE

\* No other connection is inside a write transaction.
WriteLockFree(t) == \A u \in Threads \ {t} : pc[u] # "commit"

\* The calls that have started and not failed.
InsertsStarted == Len(events) + Cardinality({t \in Threads : pc[t] = "execute"})

\* store_event(ts, "ocr", None) is entered.
I_Call(t) ==
    /\ pc[t] = "idle"
    /\ InsertsStarted < MaxEvents
    /\ \E ts \in Timestamps : targ' = [targ EXCEPT ![t] = [eid |-> NoId, v |-> ts]]
    /\ pc' = [pc EXCEPT ![t] = "execute"]
    /\ UNCHANGED <<events, vectors, snapshot, vh, inst, index, last, tn, procs, cap>>

\* c.execute(INSERT INTO events ...); event_id = c.lastrowid
I_Execute(t) ==
    /\ pc[t] = "execute"
    /\ WriteLockFree(t)
    /\ tn' = [tn EXCEPT ![t] = NextRowId(events)]
    /\ pc' = [pc EXCEPT ![t] = "commit"]
    /\ UNCHANGED <<events, vectors, snapshot, vh, inst, index, last, targ, procs, cap>>

\* c.execute(...) gives up waiting for the lock: the call raises.
I_Busy(t) ==
    /\ pc[t] = "execute"
    /\ ~WriteLockFree(t)
    /\ pc' = [pc EXCEPT ![t] = "idle"]
    /\ targ' = [targ EXCEPT ![t] = NoArg]
    /\ last' = [NoLast EXCEPT !.op = "store_event", !.ts = targ[t].v, !.st = "ocr",
                   !.auto = TRUE, !.status = "raised"]
    /\ UNCHANGED <<events, vectors, snapshot, vh, inst, index, tn, procs, cap>>

\* conn.commit()
I_Commit(t) ==
    /\ pc[t] = "commit"
    /\ events' = InsertEvent(events, targ[t].v, "ocr", None, FALSE, None)
    /\ pc' = [pc EXCEPT ![t] = "ret"]
    /\ UNCHANGED <<vectors, snapshot, vh, inst, index, last, targ, tn, procs, cap>>

\* return event_id (content is None: nothing to vectorize)
I_Return(t) ==
    /\ pc[t] = "ret"
    /\ pc' = [pc EXCEPT ![t] = "idle"]
    /\ targ' = [targ EXCEPT ![t] = NoArg]
    /\ tn' = [tn EXCEPT ![t] = 0]
    /\ last' = [NoLast EXCEPT !.op = "store_event", !.ts = targ[t].v, !.st = "ocr",
                   !.auto = TRUE, !.ret = tn[t]]
    /\ UNCHANGED <<events, vectors, snapshot, vh, inst, index, procs, cap>>

NextInserts ==
    \E t \in Threads :
        I_Call(t) \/ I_Execute(t) \/ I_Busy(t) \/ I_Commit(t) \/ I_Return(t)

SpecInserts == Init /\ [][NextInserts]_vars

(***************************************************************************)
(* Threads of one process calling store_vector on the shared handler, one  *)
(* statement at a time.  The code takes no lock.  The INSERT and its       *)
(* commit are one step (SQLite serializes writers); index.add runs with    *)
(* the interpreter lock released, so an add that overlaps another add      *)
(* either appends after it or overwrites the slot it computed on entry.    *)
(***************************************************************************)
Vectors == {1, 2}

InitThreads ==
    /\ events = InsertEvent(InsertEvent(<<>>, 1, "ocr", <<"a">>, FALSE, None),
                            2, "ocr", <<"b", " ">>, FALSE, None)
    /\ vectors = <<>>
    /\ snapshot = NoFile
    /\ vh = "Handler"
    /\ inst = InstOf("Handler")
    /\ index = <<>>
    /\ last = NoLast
    /\ pc = [t \in Threads |-> "idle"]
    /\ targ = [t \in Threads |-> NoArg]
    /\ tn = [t \in Threads |-> 0]
    /\ procs = NoProcs
    /\ cap = NoCap

\* The calls started so far.
AddsStarted == Len(vectors) + Cardinality({t \in Threads : pc[t] = "insert"})

\* store_vector(event_id, vector) is entered.
T_Call(t) ==
    /\ pc[t] = "idle"
    /\ AddsStarted < MaxAdds
    /\ \E e \in 1..Len(events), v \in Vectors :
           targ' = [targ EXCEPT ![t] = [eid |-> e, v |-> v]]
    /\ pc' = [pc EXCEPT ![t] = "insert"]
    /\ UNCHANGED <<events, vectors, snapshot, vh, inst, index, last, tn, procs, cap>>

\* c.execute(INSERT INTO vectors ...); conn.commit()
T_Insert(t) ==
    /\ pc[t] = "insert"
    /\ vectors' = InsertVector(vectors, targ[t].eid, targ[t].v)
    /\ pc' = [pc EXCEPT ![t] = "add"]
    /\ UNCHANGED <<events, snapshot, vh, inst, index, last, targ, tn, procs, cap>>

\* self.index.add(...) is entered: it reads ntotal.
T_AddBegin(t) ==
    /\ pc[t] = "add"
    /\ tn' = [tn EXCEPT ![t] = Len(index)]
    /\ pc' = [pc EXCEPT ![t] = "add_write"]
    /\ UNCHANGED <<events, vectors, snapshot, vh, inst, index, last, targ, procs, cap>>

\* self.index.add(...) writes the vector and the new ntotal.
T_AddEnd(t) ==
    /\ pc[t] = "add_write"
    /\ \/ index' = IndexAdd(index, targ[t].v)
       \/ /\ tn[t] < Len(index)
          /\ index' = IndexAdd(SubSeq(index, 1, tn[t]), targ[t].v)
    /\ pc' = [pc EXCEPT ![t] = "save"]
    /\ tn' = [tn EXCEPT ![t] = 0]
    /\ UNCHANGED <<events, vectors, snapshot, vh, inst, last, targ, procs, cap>>

\* self._save_index()
T_Save(t) ==
    /\ pc[t] = "save"
    /\ snapshot' = SaveIndex(index, LiveDimension)
    /\ pc' = [pc EXCEPT ![t] = "ret"]
    /\ UNCHANGED <<events, vectors, vh, inst, index, last, targ, tn, procs, cap>>

\* return vector_id
T_Return(t) ==
    /\ pc[t] = "ret"
    /\ pc' = [pc EXCEPT ![t] = "idle"]
    /\ targ' = [targ EXCEPT ![t] = NoArg]
    /\ UNCHANGED <<events, vectors, snapshot, vh, inst, index, last, tn, procs, cap>>

NextThreads ==
    \E t \in Threads :
        T_Call(t) \/ T_Insert(t) \/ T_AddBegin(t) \/ T_AddEnd(t) \/ T_Save(t) \/ T_Return(t)

SpecThreads == InitThreads /\ [][NextThreads]_vars

(***************************************************************************)
(* Threads of one process making their first calls of                      *)
(* db_handler.get_vector_handler: each segment is transcribed and stored   *)
(* by a thread of its own.  Neither accessor holds a lock, and the         *)
(* VectorHandler constructor loads the model and reads files, so the       *)
(* threads interleave between the test of a global, its assignment and     *)
(* the read that returns it.  tn[t] is the instance thread t holds.        *)
(***************************************************************************)
\* db_handler.get_vector_handler: `if _vector_handler is None`
G_Call(t) ==
    /\ pc[t] = "idle"
    /\ pc' = [pc EXCEPT ![t] = IF inst.db = 0 THEN "get_vh" ELSE "db_return"]
    /\ UNCHANGED <<events, vectors, snapshot, vh, inst, index, last, targ, tn, procs, cap>>

\* vector_handler.get_vector_handler: `if _vector_handler is None`
G_CheckVH(t) ==
    /\ pc[t] = "get_vh"
    /\ pc' = [pc EXCEPT ![t] = IF inst.vm = 0 THEN "construct" ELSE "vh_return"]
    /\ UNCHANGED <<events, vectors, snapshot, vh, inst, index, last, targ, tn, procs, cap>>

\* VectorHandler(): the thread constructs an instance of its own.
G_Construct(t) ==
    /\ pc[t] = "construct"
    /\ inst' = [inst EXCEPT !.made = @ + 1]
    /\ tn' = [tn EXCEPT ![t] = inst.made + 1]
    /\ pc' = [pc EXCEPT ![t] = "vh_assign"]
    /\ UNCHANGED <<events, vectors, snapshot, vh, index, last, targ, procs, cap>>

\* `_vector_handler = VectorHandler()` in vector_handler
G_AssignVH(t) ==
    /\ pc[t] = "vh_assign"
    /\ inst' = [inst EXCEPT !.vm = tn[t]]
    /\ pc' = [pc EXCEPT ![t] = "vh_return"]
    /\ UNCHANGED <<events, vectors, snapshot, vh, index, last, targ, tn, procs, cap>>

\* `return _vector_handler` in vector_handler
G_ReturnVH(t) ==
    /\ pc[t] = "vh_return"
    /\ tn' = [tn EXCEPT ![t] = inst.vm]
    /\ pc' = [pc EXCEPT ![t] = "db_assign"]
    /\ UNCHANGED <<events, vectors, snapshot, vh, inst, index, last, targ, procs, cap>>

\* `_vector_handler = get_vh()` in db_handler
G_AssignDB(t) ==
    /\ pc[t] = "db_assign"
    /\ inst' = [inst EXCEPT !.db = tn[t]]
    /\ vh' = "Handler"
    /\ pc' = [pc EXCEPT ![t] = "db_return"]
    /\ UNCHANGED <<events, vectors, snapshot, index, last, targ, tn, procs, cap>>

\* `return _vector_handler if _vector_handler is not False else None`
G_Return(t) ==
    /\ pc[t] = "db_return"
    /\ tn' = [tn EXCEPT ![t] = IF inst.db = -1 THEN 0 ELSE inst.db]
    /\ pc' = [pc EXCEPT ![t] = "done"]
    /\ UNCHANGED <<events, vectors, snapshot, vh, inst, index, last, targ, procs, cap>>

NextSingleton ==
    \E t \in Threads :
        \/ G_Call(t)
        \/ G_CheckVH(t)
        \/ G_Construct(t)
        \/ G_AssignVH(t)
        \/ G_ReturnVH(t)
        \/ G_AssignDB(t)
        \/ G_Return(t)

SpecSingleton == Init /\ [][NextSingleton]_vars

(***************************************************************************)
(* The two capture processes launched by run_dual_capture.  They share     *)
(* snap.db and vectors.faiss; each has a handler and an in-memory index of *)
(* its own, built at its first store_event with content.  procs[p] is      *)
(* [up, index]: whether process p has its handler, and that handler's      *)
(* index.                                                                  *)
(***************************************************************************)
Procs == {"screen", "speaker"}

SourceTypeOf(p) == IF p = "screen" THEN "ocr" ELSE "transcription"

ProcTexts == {<<"a">>, <<"b">>, <<"a", "b">>}

InitProcs ==
    /\ events = <<>>
    /\ vectors = <<>>
    /\ snapshot = NoFile
    /\ vh = "None"
    /\ inst = NoInst
    /\ index = <<>>
    /\ last = NoLast
    /\ pc = [t \in Threads |-> "idle"]
    /\ targ = [t \in Threads |-> NoArg]
    /\ tn = [t \in Threads |-> 0]
    /\ procs = [p \in Procs |-> [up |-> FALSE, index |-> <<>>]]
    /\ cap = NoCap

\* The world as process p sees it: the shared disk and its own handler.
WorldOf(p) ==
    [events |-> events, vectors |-> vectors, snapshot |-> snapshot,
     vh |-> IF procs[p].up THEN "Handler" ELSE "None", index |-> procs[p].index]

\* Process p stores a captured text with store_event.
P_StoreEvent(p) ==
    \E c \in ProcTexts :
        LET r == StoreEvent(WorldOf(p), 1, SourceTypeOf(p), c, FALSE, None, TRUE, "none")
        IN  /\ Len(events) < MaxEvents
            /\ Len(vectors) < MaxVectors
            /\ events' = r.w.events
            /\ vectors' = r.w.vectors
            /\ snapshot' = r.w.snapshot
            /\ procs' = [procs EXCEPT ![p] = [up |-> r.w.vh = "Handler",
                                              index |-> r.w.index]]
            /\ last' = [NoLast EXCEPT !.op = "store_event", !.st = SourceTypeOf(p),
                                      !.c = c, !.ret = r.ret, !.status = r.status]
            /\ UNCHANGED <<vh, inst, index, pc, targ, tn, cap>>

\* Process p exits; run_dual_capture may be started again.
P_Exit(p) ==
    /\ procs[p].up
    /\ procs' = [procs EXCEPT ![p] = [up |-> FALSE, index |-> <<>>]]
    /\ last' = [NoLast EXCEPT !.op = "exit", !.st = SourceTypeOf(p)]
    /\ UNCHANGED <<events, vectors, snapshot, vh, inst, index, pc, targ, tn, cap>>

NextProcs == \E p \in Procs : P_StoreEvent(p) \/ P_Exit(p)

SpecProcs == InitProcs /\ [][NextProcs]_vars

(***************************************************************************)
(* The screen-capture process: start_continuous_capture takes screenshots  *)
(* and queues them, ocr_worker (one daemon thread) takes them off the      *)
(* queue and runs process_screenshot_ocr.  cap is                          *)
(*   capturing        the global flag, cleared by the SIGINT handler       *)
(*   queue            screenshot_queue: the numbers of the queued shots    *)
(*   unfinished       the queue's count of put() not yet task_done()       *)
(*   last_saved_text  the global compared against                          *)
(*   files            the screenshot files on disk                         *)
(*   taken            screenshot_count                                     *)
(*   main, worker     where the main thread and the worker thread are      *)
(***************************************************************************)
NoTextDetected == <<"(No text detected)">>
OcrError == <<"OCR Error">>
ScreenshotPath == <<"p">>

\* What ocr(filename) does: it returns the text of the image, or raises.
OcrOutcomes ==
    {[raised |-> FALSE, text |-> t] : t \in {<<"a">>, <<" ", "a">>, <<" ">>}}
        \cup {[raised |-> TRUE, text |-> <<>>]}

\* The steps of store_event that can fail inside the worker.
ScreenFaults == {"none", "construct_raise", "events_insert_raise"}

InitScreen ==
    /\ events = <<>>
    /\ vectors = <<>>
    /\ snapshot = NoFile
    /\ vh = "None"
    /\ inst = NoInst
    /\ index = <<>>
    /\ last = NoLast
    /\ pc = [t \in Threads |-> "idle"]
    /\ targ = [t \in Threads |-> NoArg]
    /\ tn = [t \in Threads |-> 0]
    /\ procs = NoProcs
    /\ cap = [capturing |-> TRUE, queue |-> <<>>, unfinished |-> 0,
              last_saved_text |-> None, files |-> {}, taken |-> 0,
              main |-> "loop", worker |-> "run"]

\* The except branch of process_screenshot_ocr: the error is stored as an
\* event and last_saved_text is left alone; a store_event that raises here
\* leaves the function.
StoreOcrError(w, lst, files, fault) ==
    LET r == StoreEvent(w, 1, "ocr", OcrError, FALSE, ScreenshotPath, TRUE, fault)
    IN  [w |-> r.w, last_saved_text |-> lst, files |-> files,
         status |-> IF r.status = "ok" THEN "ok" ELSE "raised"]

\* process_screenshot_ocr(filename, screenshot_num); f1 and f2 are the
\* faults of the store_event in the try and of the one in the except.
ProcessScreenshotOcr(w, lst, files, num, out, f1, f2) ==
    LET cleaned == IF Strip(out.text) = <<>> THEN NoTextDetected ELSE Strip(out.text)
        r == StoreEvent(w, 1, "ocr", cleaned, FALSE, ScreenshotPath, TRUE, f1)
    IN  IF out.raised THEN StoreOcrError(w, lst, files, f2)
        ELSE IF lst = None \/ cleaned # lst
        THEN IF r.status = "ok"
             THEN [w |-> r.w, last_saved_text |-> cleaned, files |-> files, status |-> "ok"]
             ELSE StoreOcrError(r.w, lst, files, f2)
        ELSE [w |-> w, last_saved_text |-> lst, files |-> files \ {num}, status |-> "ok"]

\* SIGINT: signal_handler runs in the main thread, between two of its
\* statements, and clears the flag.
S_Signal ==
    /\ cap.capturing
    /\ cap.main \in {"loop", "shot"}
    /\ cap' = [cap EXCEPT !.capturing = FALSE]
    /\ UNCHANGED <<events, vectors, snapshot, vh, inst, index, last, pc, targ, tn, procs>>

\* `while capturing:` is true and take_screenshot grabs and saves the image.
M_TakeScreenshot ==
    /\ cap.main = "loop"
    /\ cap.capturing
    /\ cap.taken < MaxShots
    /\ cap' = [cap EXCEPT !.main = "shot", !.taken = @ + 1,
                          !.files = @ \cup {cap.taken + 1}]
    /\ UNCHANGED <<events, vectors, snapshot, vh, inst, index, last, pc, targ, tn, procs>>

\* screenshot_queue.put((filename, screenshot_count)) and the sleep.
M_Put ==
    /\ cap.main = "shot"
    /\ cap' = [cap EXCEPT !.main = "loop", !.queue = Append(@, cap.taken),
                          !.unfinished = @ + 1]
    /\ UNCHANGED <<events, vectors, snapshot, vh, inst, index, last, pc, targ, tn, procs>>

\* `while capturing:` is false: the finally block starts.
M_LeaveLoop ==
    /\ cap.main = "loop"
    /\ ~cap.capturing
    /\ cap' = [cap EXCEPT !.main = "join_thread"]
    /\ UNCHANGED <<events, vectors, snapshot, vh, inst, index, last, pc, targ, tn, procs>>

\* ocr_thread.join(timeout=30.0) returns: the thread ended or 30 s passed.
M_JoinThread ==
    /\ cap.main = "join_thread"
    /\ cap' = [cap EXCEPT !.main = "join_queue"]
    /\ UNCHANGED <<events, vectors, snapshot, vh, inst, index, last, pc, targ, tn, procs>>

\* screenshot_queue.join() returns: every put() has had its task_done().
M_JoinQueue ==
    /\ cap.main = "join_queue"
    /\ cap.unfinished = 0
    /\ cap' = [cap EXCEPT !.main = "done"]
    /\ UNCHANGED <<events, vectors, snapshot, vh, inst, index, last, pc, targ, tn, procs>>

\* One turn of the worker loop with a queued screenshot: get, process,
\* task_done; an exception that leaves process_screenshot_ocr is caught by
\* the loop's `except Exception`, after which task_done has not run.
W_Process ==
    \E out \in OcrOutcomes, f1 \in ScreenFaults, f2 \in ScreenFaults :
        LET num == Head(cap.queue)
            r == ProcessScreenshotOcr(World, cap.last_saved_text, cap.files, num,
                                      out, f1, f2)
            plain == ProcessScreenshotOcr(World, cap.last_saved_text, cap.files, num,
                                          out, "none", "none")
        IN  /\ cap.worker = "run"
            /\ cap.queue # <<>>
            /\ (f1 # "none" \/ f2 # "none") =>
                   /\ r # plain
                   /\ f1 # "none" =>
                          r # ProcessScreenshotOcr(World, cap.last_saved_text, cap.files,
                                                   num, out, "none", f2)
                   /\ f2 # "none" =>
                          r # ProcessScreenshotOcr(World, cap.last_saved_text, cap.files,
                                                   num, out, f1, "none")
            /\ Leave([w |-> r.w, status |-> r.status])
            /\ cap' = [cap EXCEPT !.queue = Tail(@),
                                  !.last_saved_text = r.last_saved_text,
                                  !.files = r.files,
                                  !.unfinished = IF r.status = "ok" THEN @ - 1 ELSE @]
            /\ last' = [NoLast EXCEPT !.op = "ocr", !.ret = num, !.c = out.text,
                                      !.status = r.status,
                                      !.fault = IF f1 # "none" THEN f1 ELSE f2]
            /\ UNCHANGED <<pc, targ, tn, procs>>

\* `while capturing or not screenshot_queue.empty()` is false.
W_Exit ==
    /\ cap.worker = "run"
    /\ ~cap.capturing
    /\ cap.queue = <<>>
    /\ cap' = [cap EXCEPT !.worker = "exited"]
    /\ UNCHANGED <<events, vectors, snapshot, vh, inst, index, last, pc, targ, tn, procs>>

NextScreen ==
    \/ S_Signal
    \/ M_TakeScreenshot
    \/ M_Put
    \/ M_LeaveLoop
    \/ M_JoinThread
    \/ M_JoinQueue
    \/ W_Process
    \/ W_Exit

SpecScreen == InitScreen /\ [][NextScreen]_vars

(***************************************************************************)
(* The speaker-capture process: start_recording reads audio and queues     *)
(* full segments, save_worker starts one thread per queued segment that    *)
(* writes the WAV file and queues it for transcription, and                *)
(* transcription_worker starts one thread per queued file that transcribes *)
(* it and stores the event.  cap is                                        *)
(*   recording            the flag of the recorder                         *)
(*   audio_queue          the numbers of the segments queued for saving    *)
(*   transcription_queue  the numbers of the saved segments queued         *)
(*   segment_number       the number of the segment being filled           *)
(*   partial              current_segment holds samples                    *)
(*   handler              stop_recording has run in the SIGINT handler     *)
(*   put                  the segments put on audio_queue so far           *)
(*   final                the number of the final partial segment, or 0    *)
(*   saving, transcribing the segments whose threads are running           *)
(*   wav                  the segments whose WAV file is written           *)
(*   main, save_worker, transcription_worker  where the threads are        *)
(***************************************************************************)
NoSpeechDetected == <<"(No speech detected)">>
TranscriptionError == <<"Transcription Error">>

\* The path of the WAV file of segment n.
SegmentPath(n) == [i \in 1..n |-> "s"]

\* What asr.transcribe_audio and extract_text_from_result give.
AsrOutcomes ==
    {[raised |-> FALSE, text |-> t] : t \in {<<"a">>, <<" ">>}}
        \cup {[raised |-> TRUE, text |-> <<>>]}

\* The steps of store_event that can fail inside a transcription thread.
SpeakerFaults == {"none", "events_insert_raise"}

InitSpeaker ==
    /\ events = <<>>
    /\ vectors = <<>>
    /\ snapshot = NoFile
    /\ vh = "None"
    /\ inst = NoInst
    /\ index = <<>>
    /\ last = NoLast
    /\ pc = [t \in Threads |-> "idle"]
    /\ targ = [t \in Threads |-> NoArg]
    /\ tn = [t \in Threads |-> 0]
    /\ procs = NoProcs
    /\ cap = [recording |-> TRUE, audio_queue |-> <<>>, transcription_queue |-> <<>>,
              segment_number |-> 1, partial |-> FALSE, handler |-> FALSE,
              put |-> {}, final |-> 0, saving |-> {}, transcribing |-> {},
              wav |-> {}, main |-> "loop", save_worker |-> "run",
              transcription_worker |-> "run"]

\* save_transcription_to_db: the text is cleaned and stored; an exception
\* of store_event is printed and dropped.
SaveTranscriptionToDb(w, n, text, fault) ==
    LET cleaned == IF Strip(text) = <<>> THEN NoSpeechDetected ELSE Strip(text)
        r == StoreEvent(w, 1, "transcription", cleaned, FALSE, SegmentPath(n), TRUE, fault)
    IN  [w |-> r.w, status |-> "ok"]

\* transcribe_segment: the text of the file is stored, and when the
\* transcription raises, an error event is stored instead.
TranscribeSegment(w, n, out, fault) ==
    IF out.raised THEN SaveTranscriptionToDb(w, n, TranscriptionError, fault)
    ELSE SaveTranscriptionToDb(w, n, out.text, fault)

\* One turn of the read loop that leaves the segment unfinished.
R_ReadChunk ==
    /\ cap.main = "loop"
    /\ cap.recording
    /\ ~cap.partial
    /\ cap' = [cap EXCEPT !.partial = TRUE]
    /\ UNCHANGED <<events, vectors, snapshot, vh, inst, index, last, pc, targ, tn, procs>>

\* One turn of the read loop that completes a segment: the segment is put
\* on audio_queue and the samples beyond it, if any, start the next one.
R_CompleteSegment ==
    \E rest \in BOOLEAN :
        /\ cap.main = "loop"
        /\ cap.recording
        /\ cap.segment_number <= MaxSegments
        /\ cap' = [cap EXCEPT !.audio_queue = Append(@, cap.segment_number),
                              !.put = @ \cup {cap.segment_number},
                              !.segment_number = @ + 1,
                              !.partial = rest]
        /\ UNCHANGED <<events, vectors, snapshot, vh, inst, index, last, pc, targ, tn, procs>>

\* Ctrl+C.  With the SIGINT handler of main() installed, the handler calls
\* stop_recording inside the read loop; without it KeyboardInterrupt leaves
\* the loop and the finally block calls stop_recording.  Either way
\* stop_recording clears the flag, closes the stream and starts to wait.
R_Stop ==
    \E handler \in BOOLEAN :
        /\ cap.main = "loop"
        /\ cap.recording
        /\ cap' = [cap EXCEPT !.recording = FALSE, !.handler = handler,
                              !.main = "join_save"]
        /\ UNCHANGED <<events, vectors, snapshot, vh, inst, index, last, pc, targ, tn, procs>>

\* save_thread.join() returns and "All saves completed" is printed.
R_JoinSave ==
    /\ cap.main = "join_save"
    /\ cap.save_worker = "exited"
    /\ cap' = [cap EXCEPT !.main = "join_transcription"]
    /\ UNCHANGED <<events, vectors, snapshot, vh, inst, index, last, pc, targ, tn, procs>>

\* transcription_thread.join() returns and "All transcriptions completed"
\* is printed.
R_JoinTranscription ==
    /\ cap.main = "join_transcription"
    /\ cap.transcription_worker = "exited"
    /\ cap' = [cap EXCEPT !.main = "reported"]
    /\ UNCHANGED <<events, vectors, snapshot, vh, inst, index, last, pc, targ, tn, procs>>

\* The rest of the finally block of start_recording.  After the handler has
\* run stop_recording, the finally block runs it a second time on the
\* closed stream: the library either lets that pass or raises, and an
\* exception leaves the block before the final segment is put.
R_FinalSegment ==
    \E again_raises \in BOOLEAN :
        /\ cap.main = "reported"
        /\ again_raises => cap.handler
        /\ cap' = IF cap.partial /\ ~again_raises
                  THEN [cap EXCEPT !.audio_queue = Append(@, cap.segment_number),
                                   !.put = @ \cup {cap.segment_number},
                                   !.final = cap.segment_number,
                                   !.main = "done"]
                  ELSE [cap EXCEPT !.main = "done"]
        /\ UNCHANGED <<events, vectors, snapshot, vh, inst, index, last, pc, targ, tn, procs>>

\* One turn of save_worker with a queued segment: a save thread is started.
SW_Start ==
    /\ cap.save_worker = "run"
    /\ cap.audio_queue # <<>>
    /\ cap' = [cap EXCEPT !.audio_queue = Tail(@),
                          !.saving = @ \cup {Head(cap.audio_queue)}]
    /\ UNCHANGED <<events, vectors, snapshot, vh, inst, index, last, pc, targ, tn, procs>>

\* `while self.recording or not self.audio_queue.empty()` is false.
SW_Exit ==
    /\ cap.save_worker = "run"
    /\ ~cap.recording
    /\ cap.audio_queue = <<>>
    /\ cap' = [cap EXCEPT !.save_worker = "exited"]
    /\ UNCHANGED <<events, vectors, snapshot, vh, inst, index, last, pc, targ, tn, procs>>

\* A save thread runs save_segment: the WAV file is written and the file is
\* put on transcription_queue, or the write raises and the error is printed.
ST_SaveSegment ==
    \E n \in cap.saving, ok \in BOOLEAN :
        /\ cap' = IF ok
                  THEN [cap EXCEPT !.saving = @ \ {n}, !.wav = @ \cup {n},
                                   !.transcription_queue = Append(@, n)]
                  ELSE [cap EXCEPT !.saving = @ \ {n}]
        /\ UNCHANGED <<events, vectors, snapshot, vh, inst, index, last, pc, targ, tn, procs>>

\* One turn of transcription_worker with a queued file: a transcription
\* thread is started.
TW_Start ==
    /\ cap.transcription_worker = "run"
    /\ cap.transcription_queue # <<>>
    /\ cap' = [cap EXCEPT !.transcription_queue = Tail(@),
                          !.transcribing = @ \cup {Head(cap.transcription_queue)}]
    /\ UNCHANGED <<events, vectors, snapshot, vh, inst, index, last, pc, targ, tn, procs>>

\* `while self.recording or not self.transcription_queue.empty()` is false.
TW_Exit ==
    /\ cap.transcription_worker = "run"
    /\ ~cap.recording
    /\ cap.transcription_queue = <<>>
    /\ cap' = [cap EXCEPT !.transcription_worker = "exited"]
    /\ UNCHANGED <<events, vectors, snapshot, vh, inst, index, last, pc, targ, tn, procs>>

\* A transcription thread runs transcribe_segment.
TT_TranscribeSegment ==
    \E n \in cap.transcribing, out \in AsrOutcomes, fault \in SpeakerFaults :
        LET r == TranscribeSegment(World, n, out, fault)
        IN  /\ Leave(r)
            /\ cap' = [cap EXCEPT !.transcribing = @ \ {n}]
            /\ last' = [NoLast EXCEPT !.op = "transcribe", !.ret = n, !.c = out.text,
                                      !.fault = fault]
            /\ UNCHANGED <<pc, targ, tn, procs>>

NextSpeaker ==
    \/ R_ReadChunk
    \/ R_CompleteSegment
    \/ R_Stop
    \/ R_JoinSave
    \/ R_JoinTranscription
    \/ R_FinalSegment
    \/ SW_Start
    \/ SW_Exit
    \/ ST_SaveSegment
    \/ TW_Start
    \/ TW_Exit
    \/ TT_TranscribeSegment

SpecSpeaker == InitSpeaker /\ [][NextSpeaker]_vars

(***************************************************************************)
(* run_dual_capture: the parent launches the two capture processes and     *)
(* waits for them in wait_for_processes.  procs is                         *)
(*   parent  where the parent is: "poll" (the polling loop), "signal" and  *)
(*           "wait" (_graceful_terminate), "kill" (_ensure_killed),        *)
(*           "returned", or "interrupted" when KeyboardInterrupt has left  *)
(*           wait_for_processes                                            *)
(*   i       the position of the current loop in the list of processes     *)
(*   ctrlc   how many times Ctrl+C was pressed                             *)
(*   child   per launched process: alive, sigint (SIGINT was delivered),   *)
(*           killed (kill() was called on it)                              *)
(***************************************************************************)
ProcList == <<"screen", "speaker">>

InitDual ==
    /\ events = <<>>
    /\ vectors = <<>>
    /\ snapshot = NoFile
    /\ vh = "None"
    /\ inst = NoInst
    /\ index = <<>>
    /\ last = NoLast
    /\ pc = [t \in Threads |-> "idle"]
    /\ targ = [t \in Threads |-> NoArg]
    /\ tn = [t \in Threads |-> 0]
    /\ cap = NoCap
    /\ procs = [parent |-> "poll", i |-> 1, ctrlc |-> 0,
                child |-> [p \in Procs |->
                              [alive |-> TRUE, sigint |-> FALSE, killed |-> FALSE]]]

\* A capture process ends: by itself, after its SIGINT handler has shut it
\* down, or because it was killed.  A process may also never end by itself.
D_ChildExit(p) ==
    /\ procs.child[p].alive
    /\ procs' = [procs EXCEPT !.child[p].alive = FALSE]
    /\ UNCHANGED <<events, vectors, snapshot, vh, inst, index, last, pc, targ, tn, cap>>

\* Ctrl+C in the console: SIGINT reaches the parent and, the children being
\* in the same process group, every child.  In the polling loop the parent
\* enters its except branch; anywhere later in wait_for_processes the
\* KeyboardInterrupt leaves the function.
D_CtrlC ==
    /\ procs.ctrlc < MaxCtrlC
    /\ procs.parent \in {"poll", "signal", "wait", "kill"}
    /\ procs' = [procs EXCEPT
                    !.ctrlc = @ + 1,
                    !.parent = IF @ = "poll" THEN "signal" ELSE "interrupted",
                    !.i = 1,
                    !.child = [p \in Procs |->
                                  IF procs.child[p].alive
                                  THEN [procs.child[p] EXCEPT !.sigint = TRUE]
                                  ELSE procs.child[p]]]
    /\ UNCHANGED <<events, vectors, snapshot, vh, inst, index, last, pc, targ, tn, cap>>

\* The polling loop finds every process exited and breaks.
D_AllExited ==
    /\ procs.parent = "poll"
    /\ \A p \in Procs : ~procs.child[p].alive
    /\ procs' = [procs EXCEPT !.parent = "kill", !.i = 1]
    /\ UNCHANGED <<events, vectors, snapshot, vh, inst, index, last, pc, targ, tn, cap>>

\* The first loop of _graceful_terminate: SIGINT to each process still
\* alive.
D_SendSigint ==
    /\ procs.parent = "signal"
    /\ procs' = IF procs.i <= Len(ProcList)
                THEN [procs EXCEPT
                         !.i = @ + 1,
                         !.child[ProcList[procs.i]].sigint =
                             @ \/ procs.child[ProcList[procs.i]].alive]
                ELSE [procs EXCEPT !.parent = "wait", !.i = 1]
    /\ UNCHANGED <<events, vectors, snapshot, vh, inst, index, last, pc, targ, tn, cap>>

\* The second loop of _graceful_terminate: proc.wait(timeout=30.0) ends
\* because the process has exited or because the 30 s have passed.
D_Wait ==
    /\ procs.parent = "wait"
    /\ procs' = IF procs.i <= Len(ProcList)
                THEN [procs EXCEPT !.i = @ + 1]
                ELSE [procs EXCEPT !.parent = "kill", !.i = 1]
    /\ UNCHANGED <<events, vectors, snapshot, vh, inst, index, last, pc, targ, tn, cap>>

\* One turn of the loop of _ensure_killed, and after the last one the
\* return of wait_for_processes.
EnsureKilledStep(ps) ==
    IF ps.i <= Len(ProcList)
    THEN [ps EXCEPT !.i = @ + 1,
                    !.child[ProcList[ps.i]].killed =
                        @ \/ ps.child[ProcList[ps.i]].alive]
    ELSE [ps EXCEPT !.parent = "returned"]

\* _ensure_killed, one process per step.
D_EnsureKilled ==
    /\ procs.parent = "kill"
    /\ procs' = EnsureKilledStep(procs)
    /\ UNCHANGED <<events, vectors, snapshot, vh, inst, index, last, pc, targ, tn, cap>>

NextDual ==
    \/ \E p \in Procs : D_ChildExit(p)
    \/ D_CtrlC
    \/ D_AllExited
    \/ D_SendSigint
    \/ D_Wait
    \/ D_EnsureKilled

SpecDual == InitDual /\ [][NextDual]_vars

(***************************************************************************)
(* Properties.                                                             *)
(***************************************************************************)
\* The vectors rows an event gained in the last operation.
AddedRows(e) ==
    VectorRowsOf(vectors, e) - VectorRowsOf(SubSeq(vectors, 1, last.pre_nvec), e)

NoFaults == [e \in 1..Len(events) |-> "none"]

ContentOf(e) == GetEventById(events, e)[1].content

\* C1: whatever step of the vectorization fails, store_event keeps the event
\* row and returns its id without raising.
C1_StoreEventKeepsRowAndReturnsId ==
    (last.op = "store_event" /\ last.status # "crashed") =>
        /\ events # <<>>
        /\ events[Len(events)].content = last.c
        /\ last.status = "ok"
        /\ last.ret = events[Len(events)].id

\* C2: with a handler in the process, the index holds as many vectors as the
\* vectors table has rows after every completed operation.
C2_IndexCountEqualsRowCount ==
    vh = "Handler" => Len(index) = Len(vectors)

\* C3: the index of a handler constructed after a crash or restart holds
\* exactly the vectors of the vectors table, row by row.
C3_FreshHandlerMatchesTable ==
    (last.op = "stats" /\ last.fresh) => index = RebuildIndexFromDb(vectors)

\* C6: a step that gives an event a second (or later) vectors row is a sweep
\* with force_revectorize=True.
C6_OnlyForcedSweepAddsSecondRow ==
    [][\A e \in 1..Len(events') :
          (VectorRowsOf(vectors', e) >= 2
             /\ VectorRowsOf(vectors', e) > VectorRowsOf(vectors, e))
          => (last'.op = "sweep" /\ last'.force)]_vars

\* C7: store_event with auto_vectorize=True, content that is not blank and a
\* working handler in which no step fails leaves the event flagged, with
\* exactly one vectors row, and the index one vector longer.
C7_AutoVectorizeAnyFlagArgument ==
    (/\ last.op = "store_event" /\ last.auto /\ ~IsBlank(last.c)
     /\ last.faultfree /\ last.status = "ok" /\ vh = "Handler") =>
        /\ GetEventById(events, last.ret) # <<>>
        /\ GetEventById(events, last.ret)[1].vectorized = 1
        /\ VectorRowsOf(vectors, last.ret) = 1
        /\ Len(index) = last.pre_ntotal + 1

\* C8: for every timestamp, source_type, content (None and the empty string
\* included) and media_path, store_event with auto_vectorize=False followed
\* by get_event_by_id on the returned id yields a record with those four
\* values and vectorized = false.
C8_InsertThenGetRoundTrip ==
    (last.op = "store_event" /\ ~last.auto /\ ~last.vz /\ last.status = "ok") =>
        LET got == GetEventById(events, last.ret)
        IN  /\ got # <<>>
            /\ got[1].timestamp = last.ts
            /\ got[1].source_type = last.st
            /\ got[1].content = last.c
            /\ got[1].media_path = last.mp
            /\ got[1].vectorized = 0

C8_Witness ==
    /\ last.op = "store_event" /\ ~last.auto /\ ~last.vz /\ last.status = "ok"
    /\ last.c = None /\ last.ret = 2
    /\ GetEventById(events, 2)[1].content = None
    /\ GetEventById(events, 1)[1].content = <<>>

\* C9 as stated: a fault-free non-forced sweep adds one vectors row for every
\* selected event, and a second such sweep selects nothing and changes nothing.
C9_SecondSweepSelectsNothing ==
    (last.op = "sweep" /\ ~last.force /\ last.faultfree /\ vh = "Handler") =>
        /\ \A i \in 1..Len(last.selected) : AddedRows(last.selected[i]) = 1
        /\ SelectEvents(events, FALSE) = <<>>
        /\ VectorizeExistingEvents(World, FALSE, "none", NoFaults).w = World

\* C9 amended: a fault-free non-forced sweep adds one vectors row for every
\* selected event whose content is not whitespace-only and none for any
\* other event; a second such sweep selects only events with whitespace-only
\* content and changes neither the tables, the index nor the snapshot.
C9_SecondSweepChangesNothing ==
    (last.op = "sweep" /\ ~last.force /\ last.faultfree /\ vh = "Handler") =>
        LET sel == {last.selected[i] : i \in 1..Len(last.selected)}
            again == SelectEvents(events, FALSE)
        IN  /\ \A e \in 1..Len(events) :
                  AddedRows(e) = IF e \in sel /\ ~IsBlank(ContentOf(e)) THEN 1 ELSE 0
            /\ \A i \in 1..Len(again) : IsBlank(again[i].content)
            /\ VectorizeExistingEvents(World, FALSE, "none", NoFaults).w = World

C9_Witness ==
    /\ last.op = "sweep" /\ ~last.force /\ last.faultfree /\ vh = "Handler"
    /\ Len(last.selected) = 2
    /\ AddedRows(last.selected[1]) = 1
    /\ AddedRows(last.selected[2]) = 0
    /\ Len(SelectEvents(events, FALSE)) = 1

\* C10: a sweep attempts every selected event in selection order whatever
\* fails, and reports as many successes as selected events got a vectors row.
C10_SweepCountsStoredRows ==
    (last.op = "sweep" /\ last.status = "ok" /\ vh = "Handler") =>
        /\ last.attempted = last.selected
        /\ last.ret = Cardinality({i \in 1..Len(last.selected) :
                                      AddedRows(last.selected[i]) > 0})

\* The elements of a sequence.
Range(s) == {s[i] : i \in 1..Len(s)}

\* C11: the events a sweep attempts are, each once, events that before the
\* sweep had content other than NULL and the empty string and were unflagged
\* or swept with force; a sweep that obtains the handler attempts all of them.
C11_SweepAttemptsTheSelectable ==
    [][last'.op = "sweep" =>
          LET due == {events[i].id : i \in {j \in 1..Len(events) :
                          /\ events[j].content # None
                          /\ events[j].content # <<>>
                          /\ (last'.force \/ events[j].vectorized = 0)}}
          IN  /\ Range(last'.attempted) \subseteq due
              /\ Len(last'.attempted) = Cardinality(Range(last'.attempted))
              /\ (last'.status = "ok" /\ vh' = "Handler") =>
                     Range(last'.attempted) = due]_vars

C11_Witness ==
    /\ last.op = "sweep" /\ ~last.force /\ vh = "Handler"
    /\ Len(events) = 2
    /\ events[1].content = <<" ", "a">> /\ events[1].vectorized = 1
    /\ VectorRowsOf(vectors, 1) = 0
    /\ events[2].content = <<" ", "a">>
    /\ last.attempted = <<2>>

\* C12: an event whose vectorized flag is true has at least one vectors row.
C12_FlaggedEventHasVector ==
    \A i \in 1..Len(events) :
        events[i].vectorized = 1 => VectorRowsOf(vectors, events[i].id) >= 1

\* C13: no step takes the vectorized flag of an event from true to false.
C13_FlagStaysTrue ==
    [][\A i \in 1..Len(events) :
          events[i].vectorized = 1 =>
              (i <= Len(events') /\ events'[i].id = events[i].id
                 /\ events'[i].vectorized = 1)]_vars

C13_Witness ==
    /\ last.op = "sweep" /\ last.force /\ last.faultfree
    /\ \E i \in 1..Len(events) :
           /\ events[i].vectorized = 1
           /\ events[i].id \in Range(last.attempted)
           /\ VectorRowsOf(vectors, events[i].id) >= 2

\* C14: no step removes an event row or changes the id, timestamp,
\* source_type, content or media_path of one, and no step removes or changes
\* a vectors row.
C14_RowsAreNeverRemovedOrRewritten ==
    [][/\ Len(events') >= Len(events)
       /\ \A i \in 1..Len(events) :
              /\ events'[i].id = events[i].id
              /\ events'[i].timestamp = events[i].timestamp
              /\ events'[i].source_type = events[i].source_type
              /\ events'[i].content = events[i].content
              /\ events'[i].media_path = events[i].media_path
       /\ Len(vectors') >= Len(vectors)
       /\ \A i \in 1..Len(vectors) : vectors'[i] = vectors[i]]_vars

C14_Witness ==
    /\ last.op = "search" /\ last.fresh
    /\ Len(events) = 2 /\ Len(vectors) = 3
    /\ events[1].vectorized = 1

\* C15: _mark_event_vectorized leaves the event flagged and nothing else
\* changed; applied again it changes nothing, and applied to an event that
\* is already flagged it changes nothing.
C15_MarkIsIdempotent ==
    [][last'.op = "mark" =>
          LET e == last'.ret
          IN  /\ Len(events') = Len(events)
              /\ \A i \in 1..Len(events) :
                     /\ events[i].id = e => events'[i].vectorized = 1
                     /\ events[i].id # e => events'[i] = events[i]
                     /\ [events'[i] EXCEPT !.vectorized = 0]
                            = [events[i] EXCEPT !.vectorized = 0]
              /\ UNCHANGED <<vectors, snapshot, vh, index>>
              /\ MarkEventVectorized(events', e) = events'
              /\ MarkEventVectorized(MarkEventVectorized(events, e), e)
                     = MarkEventVectorized(events, e)
              /\ (\A i \in 1..Len(events) : events[i].id = e => events[i].vectorized = 1)
                     => events' = events]_vars

C15_Witness ==
    /\ last.op = "mark"
    /\ last.ret = 2
    /\ Len(events) = 2
    /\ events[1].vectorized = 0
    /\ events[2].vectorized = 1 /\ VectorRowsOf(vectors, 2) = 1

\* C16: with concurrent callers, the ids of the event rows are strictly
\* increasing in commit order, the id a call holds to return is the id of
\* the row it committed and is greater than the id of every row committed
\* before it, and no two calls hold the same id.
C16_IdsIncreaseInCommitOrder ==
    [][/\ \A i, j \in 1..Len(events') : i < j => events'[i].id < events'[j].id
       /\ \A t \in Threads :
              (pc[t] = "commit" /\ pc'[t] = "ret") =>
                  /\ tn[t] = events'[Len(events')].id
                  /\ \A i \in 1..Len(events) : events[i].id < tn[t]
       /\ \A t \in Threads :
              (pc[t] = "ret" /\ pc'[t] = "idle") =>
                  /\ last'.ret = tn[t]
                  /\ GetEventById(events', last'.ret) # <<>>
       /\ \A t, u \in Threads :
              (t # u /\ pc'[t] \in {"commit", "ret"} /\ pc'[u] \in {"commit", "ret"})
                  => tn'[t] # tn'[u]]_vars

C16_Witness ==
    /\ pc["t1"] = "ret" /\ tn["t1"] = 2
    /\ pc["t2"] = "ret" /\ tn["t2"] = 1
    /\ Len(events) = 2 /\ events[2].id = 2

\* C17: get_all_events returns every stored event exactly once, and each
\* element's timestamp is greater than or equal to the next one's.
C17_ListIsCompleteAndNewestFirst ==
    last.op = "list" =>
        LET r == last.results
        IN  /\ Len(r) = Len(events)
            /\ \A i \in 1..Len(events) :
                   Cardinality({j \in 1..Len(r) : r[j] = events[i]}) = 1
            /\ \A j \in 1..(Len(r) - 1) : r[j].timestamp >= r[j + 1].timestamp

C17_Witness ==
    /\ last.op = "list"
    /\ Len(events) = 2
    /\ events[1].timestamp = 1 /\ events[2].timestamp = 2
    /\ last.results = <<events[2], events[1]>>

\* What the queries of the last search returned, query by query.
Hits ==
    UNION {Range(SearchSimilar(World, last.queries[i], last.top_k, FALSE, last.strict).ret) :
               i \in (1..Len(last.queries)) \ last.bad}

\* The least distance at which the queries of the last search returned event e.
AggregatedDistance(e) ==
    LET ds == {h.similarity_score : h \in {g \in Hits : g.event_id = e}}
    IN  CHOOSE d \in ds : \A x \in ds : d <= x

ResultIds == {last.results[i].event_id : i \in 1..Len(last.results)}

\* C18: search_similar_events returns at most top_k results.
C18_AtMostTopKResults ==
    last.op = "search" => Len(last.results) <= last.top_k

C18_Witness ==
    /\ last.op = "search" /\ vh = "Handler"
    /\ Len(last.results) = last.top_k
    /\ Cardinality({h.event_id : h \in Hits}) > last.top_k

\* C19: in the result of search_similar_events no event id occurs twice, and
\* the score of each event is the least distance at which any query of the
\* query set returned it.
C19_OneResultPerEventAtLeastDistance ==
    (last.op = "search" /\ last.status = "ok" /\ vh = "Handler") =>
        /\ \A i, j \in 1..Len(last.results) :
               i # j => last.results[i].event_id # last.results[j].event_id
        /\ \A i \in 1..Len(last.results) :
               /\ \E h \in Hits : h.event_id = last.results[i].event_id
               /\ last.results[i].similarity_score
                      = AggregatedDistance(last.results[i].event_id)

C19_Witness ==
    /\ last.op = "search" /\ vh = "Handler"
    /\ \E i \in 1..Len(last.results) :
           LET e == last.results[i].event_id
           IN  /\ VectorRowsOf(vectors, e) >= 2
               /\ \E h \in Hits : /\ h.event_id = e
                                   /\ h.similarity_score > last.results[i].similarity_score

\* C20: the result of search_similar_events is in ascending order of
\* distance, and every event the queries returned that is not in the result
\* has an aggregated distance at least that of every event in the result.
C20_SortedAndNearestKept ==
    (last.op = "search" /\ last.status = "ok" /\ vh = "Handler") =>
        /\ \A j \in 1..(Len(last.results) - 1) :
               last.results[j].similarity_score <= last.results[j + 1].similarity_score
        /\ \A h \in Hits :
               h.event_id \notin ResultIds =>
                   \A i \in 1..Len(last.results) :
                       AggregatedDistance(h.event_id) >= last.results[i].similarity_score

C20_Witness ==
    /\ last.op = "search" /\ vh = "Handler"
    /\ last.top_k = 1 /\ Len(last.queries) = 2 /\ Len(last.results) = 1
    /\ LET first == SearchSimilar(World, last.queries[1], 1, FALSE, FALSE).ret
       IN  /\ first # <<>>
           /\ first[1].event_id # last.results[1].event_id
           /\ AggregatedDistance(first[1].event_id) > last.results[1].similarity_score

\* What VectorHandler.search_similar returns for the i-th query of the last
\* search, asked on its own.
SingleResult(i) ==
    SearchSimilar(World, last.queries[i], last.top_k, FALSE, last.strict).ret

SingleIds(i) == {h.event_id : h \in Range(SingleResult(i))}

\* C21: for a query set of two phrasings, the result of search_similar_events
\* holds each event of the union of the two search_similar results at most
\* once, scored by the smaller of its distances over the two queries, in
\* ascending order of score, and cut to the top_k nearest of the union.
C21_FusionOfTwoQueries ==
    (last.op = "search" /\ last.status = "ok" /\ vh = "Handler"
         /\ Len(last.queries) = 2 /\ last.bad = {}) =>
        LET both == Range(SingleResult(1)) \cup Range(SingleResult(2))
            union == SingleIds(1) \cup SingleIds(2)
            least(e) == CHOOSE d \in {h.similarity_score : h \in {g \in both : g.event_id = e}} :
                            \A g \in both : g.event_id = e => d <= g.similarity_score
        IN  /\ ResultIds \subseteq union
            /\ Len(last.results) = Min2(last.top_k, Cardinality(union))
            /\ Cardinality(ResultIds) = Len(last.results)
            /\ \A i \in 1..Len(last.results) :
                   last.results[i].similarity_score = least(last.results[i].event_id)
            /\ \A i \in 1..(Len(last.results) - 1) :
                   last.results[i].similarity_score <= last.results[i + 1].similarity_score
            /\ \A e \in union \ ResultIds :
                   \A i \in 1..Len(last.results) :
                       least(e) >= last.results[i].similarity_score

C21_Witness ==
    /\ last.op = "search" /\ last.status = "ok" /\ vh = "Handler"
    /\ Len(last.queries) = 2 /\ last.bad = {} /\ last.top_k = 1
    /\ SingleResult(1) # <<>> /\ SingleResult(2) # <<>>
    /\ SingleResult(1)[1].event_id # SingleResult(2)[1].event_id
    /\ last.results # <<>>
    /\ last.results[1].event_id = SingleResult(2)[1].event_id

\* C22: when the query expander fails, search_similar_events searches the
\* original query alone and returns what it returns with an expander that
\* yields no phrases.
C22_FailedExpanderIsNoExpansion ==
    (last.op = "search" /\ last.xfailed /\ vh = "Handler") =>
        /\ last.status = "ok"
        /\ last.queries = <<last.query>>
        /\ last.results = SearchSimilarEvents(World, last.query, last.top_k, NoExpansion,
                                              "none", last.bad, last.strict).ret

C22_Witness ==
    /\ last.op = "search" /\ last.xfailed /\ vh = "Handler"
    /\ last.bad = {} /\ last.results # <<>>
    /\ SearchSimilarEvents(World, last.query, last.top_k,
                           [failed |-> FALSE, phrases |-> <<<<"b">>>>],
                           "none", last.bad, last.strict).ret # last.results

\* C24: search_similar_events never raises to its caller; for a blank query
\* it returns the empty sequence, and when the handler is unavailable or
\* fails to construct, or the search of some query fails, it returns the
\* results of the remaining queries.
C24_SearchNeverRaises ==
    last.op = "search" =>
        /\ last.status = "ok"
        /\ IsBlank(last.query) /\ Len(last.queries) = 1 => last.results = <<>>
        /\ vh # "Handler" => last.results = <<>>

\* C23: a search against an index that holds no vector returns the empty
\* sequence and raises no error, through search_similar_events and through
\* VectorHandler.search_similar.
C23_EmptyIndexSearchReturnsEmpty ==
    (last.op \in {"search", "search_similar"} /\ vh = "Handler" /\ Len(index) = 0) =>
        (last.status = "ok" /\ last.results = <<>>)

\* C25: a handler that starts without a snapshot file starts without error
\* on an index that holds the vector of every vectors row, one per row, in
\* ascending order of row id.
C25_RebuildHoldsEveryRow ==
    [][(vh = "None" /\ vh' = "Handler" /\ ~snapshot.exists /\ last'.op = "search") =>
           /\ last'.status = "ok"
           /\ Len(index') = Len(vectors)
           /\ \A i \in 1..Len(vectors) :
                  /\ index'[i] = vectors[i].vector
                  /\ \A j \in 1..Len(vectors) : i < j => vectors[i].id < vectors[j].id]_vars

C25_Witness ==
    /\ last.op = "search" /\ vh = "Handler" /\ ~snapshot.exists
    /\ Len(vectors) = 2 /\ vectors[1].vector # vectors[2].vector
    /\ Len(index) = 2 /\ Len(last.results) >= 1

\* The world a new process finds: the disk as it is, no handler.
Restarted(w) == [w EXCEPT !.vh = "None", !.index = <<>>]

\* C26: a search returns the same sequence of event ids after a restart as
\* before it.
C26_SearchSurvivesRestart ==
    (last.op = "search" /\ last.status = "ok" /\ vh = "Handler" /\ last.bad = {}) =>
        LET again == SearchSimilarEvents(Restarted(World), last.query, last.top_k,
                                         [failed |-> FALSE,
                                          phrases |-> SubSeq(last.queries, 2, Len(last.queries))],
                                         "none", {}, last.strict).ret
        IN  [i \in 1..Len(again) |-> again[i].event_id]
                = [i \in 1..Len(last.results) |-> last.results[i].event_id]

\* C27: a handler never starts on a snapshot whose dimension differs from
\* that of the live embedding model.
C27_MismatchedSnapshotStopsStartup ==
    (snapshot.exists /\ snapshot.dim # LiveDimension) => vh # "Handler"

\* C28: whatever the interleaving of the first calls of get_vector_handler,
\* at most one VectorHandler is constructed and every caller that has
\* returned holds that instance.
C28_OneHandlerPerProcess ==
    /\ inst.made <= 1
    /\ \A t, u \in Threads : (pc[t] = "done" /\ pc[u] = "done") => tn[t] = tn[u]

C30_FailedInsertChangesNothing ==
    [][(last'.op = "store_event" /\ last'.fault = "events_insert_raise") =>
           /\ last'.status = "raised"
           /\ last'.ret = NoId
           /\ UNCHANGED <<events, vectors, index, snapshot, vh, inst>>]_vars

C30_Witness ==
    /\ last.op = "store_event" /\ last.fault = "events_insert_raise"
    /\ last.status = "raised"
    /\ last.auto /\ ~IsBlank(last.c)
    /\ vh = "None" /\ Len(events) = 1

\* C4: whatever the interleaving of the threads in store_vector, the vector
\* at index position i is the vector of the i-th vectors row in id order.
C4_IndexOrderIsRowOrder ==
    \A i \in 1..Len(index) : i <= Len(vectors) /\ index[i] = vectors[i].vector

\* The thread is between the start of its vectors insert and the end of its
\* snapshot save.
InStoreVector(t) == pc[t] \in {"add", "add_write", "save"}

\* C5: at most one thread at a time is between the vectors insert and the
\* end of the snapshot save of store_vector.
C5_OneWriterAtATime ==
    Cardinality({t \in Threads : InStoreVector(t)}) <= 1

\* C31: when store_vector is about to return a vector id, the row of the
\* call is in the vectors table, the in-memory index contains its vector,
\* and the snapshot on disk contains it.
C31_ReturnedVectorIsStoredEverywhere ==
    \A t \in Threads :
        pc[t] = "ret" =>
            /\ \E i \in 1..Len(vectors) :
                   vectors[i].event_id = targ[t].eid /\ vectors[i].vector = targ[t].v
            /\ \E i \in 1..Len(index) : index[i] = targ[t].v
            /\ snapshot.exists
            /\ \E i \in 1..Len(snapshot.vecs) : snapshot.vecs[i] = targ[t].v

\* C32: get_event_by_id, get_all_events, search_similar_events and
\* get_vector_stats leave the events table, the vectors table and the
\* snapshot as they were; the index of a handler that exists is left as it
\* was, and the index of a handler the call builds is what the disk holds;
\* get_vector_stats reports the number of vectors rows and the number of
\* events whose flag is false.
C32_ReadsChangeNothing ==
    [][last'.op \in {"get", "list", "search", "stats"} =>
           /\ UNCHANGED <<events, vectors, snapshot>>
           /\ vh = "Handler" => index' = index
           /\ (vh # "Handler" /\ vh' = "Handler") =>
                  index' = IF snapshot.exists THEN snapshot.vecs
                           ELSE [i \in 1..Len(vectors) |-> vectors[i].vector]
           /\ vh' # "Handler" => index' = index
           /\ (last'.op = "stats" /\ last'.stats # <<>>) =>
                  /\ last'.stats[1].total_vectors = Len(vectors)
                  /\ last'.stats[1].non_vectorized_events
                         = Cardinality({e \in 1..Len(events) : events[e].vectorized = 0})]_vars

C32_Witness ==
    /\ last.op = "stats" /\ last.stats # <<>>
    /\ last.stats[1].total_vectors = 1
    /\ last.stats[1].non_vectorized_events = 1
    /\ Len(events) = 2
    /\ last.stats[1].faiss_index_size = 0

\* C33: the rows of the join of vectors with events, in vector id order,
\* are as many as the index holds vectors, the i-th row is the row of the
\* vector at index position i, and every hit of search_similar names the
\* event whose vector lies at the hit's distance from the query.
C33_JoinRowsMatchIndexPositions ==
    vh = "Handler" =>
        LET rows == VectorEvents(vectors, events)
        IN  /\ Len(rows) = Len(index)
            /\ \A i \in 1..Len(rows) : vectors[rows[i].vector_id].vector = index[i]
            /\ last.op = "search_similar" =>
                   \A i \in 1..Len(last.results) :
                       last.results[i].similarity_score
                           = Distance(Encode(Strip(last.query)),
                                      vectors[last.results[i].vector_id].vector)

\* C34: after every completed add by either capture process, the snapshot
\* on disk and the index of each process that has a handler hold the vector
\* of every vectors row, one per row, in row id order.
C34_EveryIndexHoldsEveryRow ==
    (last.op = "store_event" /\ last.status = "ok") =>
        LET rows == [i \in 1..Len(vectors) |-> vectors[i].vector]
        IN  /\ snapshot.exists => snapshot.vecs = rows
            /\ \A p \in Procs : procs[p].up => procs[p].index = rows

\* C35: an event whose content is None, empty or whitespace-only has no
\* vectors row and is not flagged vectorized, whatever stores and sweeps
\* have run.
C35_BlankEventNeverVectorized ==
    \A e \in 1..Len(events) :
        IsBlank(events[e].content) =>
            /\ VectorRowsOf(vectors, events[e].id) = 0
            /\ events[e].vectorized = 0

\* The events of successful OCR runs, in the order they were stored.
OcrTexts ==
    LET F[i \in 0..Len(events)] ==
            IF i = 0 THEN <<>>
            ELSE IF events[i].content = OcrError THEN F[i - 1]
            ELSE Append(F[i - 1], events[i].content)
    IN  F[Len(events)]

\* C36: no two successful OCR events stored one after the other, OCR-error
\* events between them set aside, hold the same cleaned text.
C36_NoTwoEqualTextsInARow ==
    \A i \in 1..(Len(OcrTexts) - 1) : OcrTexts[i] # OcrTexts[i + 1]

\* C37: once the OCR worker has ended, no screenshot is left on the queue
\* and no put() is left without its task_done(), so that the final
\* screenshot_queue.join() returns.
C37_WorkerEndsWithQueueDone ==
    cap.worker = "exited" => (cap.queue = <<>> /\ cap.unfinished = 0)

\* Segment n has an event in the database.
SegmentStored(n) == \E e \in 1..Len(events) : events[e].media_path = SegmentPath(n)

\* C38: when the final partial segment is put on audio_queue, the save
\* worker that will take it off the queue is still running.
C38_FinalSegmentHasConsumer ==
    cap.final # 0 => cap.save_worker = "run"

\* C39: once stop_recording has reported that all saves and all
\* transcriptions completed, every segment that was put on audio_queue has
\* its WAV file and its event, and no segment lies on transcription_queue
\* after the transcription worker has ended.
C39_ReportedMeansAllStored ==
    /\ cap.main = "reported" =>
           \A n \in cap.put : n \in cap.wav /\ SegmentStored(n)
    /\ cap.transcription_worker = "exited" => cap.transcription_queue = <<>>

\* C40: when wait_for_processes has ended, by returning or by an exception
\* that left it, every launched capture process has exited or has been
\* force-killed.
C40_NoChildLeftRunning ==
    procs.parent \in {"returned", "interrupted"} =>
        \A p \in Procs : ~procs.child[p].alive \/ procs.child[p].killed

====
